---------------------------- MODULE Spec2Model ----------------------------
(***************************************************************************)
(* A model of the LlamaSweep solver: the balance scanner, the quote        *)
(* service with its in-memory quote store, the settlement service and the  *)
(* SolverVault contract it talks to.                                       *)
(*                                                                         *)
(* Units.  USD amounts are integers counted in cents (0.01 USD = 1).       *)
(* Token balances are counted in whole tokens, the quantity that           *)
(* formatUnits(balance, decimals) yields; valueUsd = balance * priceUsd.   *)
(* Time is Date.now() in milliseconds.                                     *)
(***************************************************************************)
EXTENDS Integers, Sequences, FiniteSets, TLC

VARIABLES
    config,       \* solver/src/config/index.ts: the values read from the environment
    chains,       \* SUPPORTED_CHAINS: per chain its delegate and vault address, if any
    scanCall,     \* the arguments of one scanAllBalances call and what the RPC/oracle answer
    scanReturn,   \* what that call returned (status "pending" before it ran)
    now,          \* Date.now()
    nextCleanup,  \* when the setInterval cleanup timer is next due
    quoteStore,   \* quoteService: Map quoteId -> { quote, createdAt }
    lastOp,       \* the last quote-service call: arguments and result
    vault,        \* SolverVault storage
    ledger,       \* token and native balances of every account
    lastTx,       \* the last SolverVault call: arguments and outcome
    lastReport,   \* the last settlement-service call: arguments and result
    mempool,      \* the solver account's transactions sent and not yet mined, in nonce order
    sweeps,       \* sweepExecutor: the executeSweeps invocations and how far each has got
    routeCall,    \* the arguments of one swap/bridge quote call and what the providers answer
    routeReturn,  \* what that call returned (status "pending" before it ran)
    delegate,     \* LlamaSweepDelegate: its immutable `solver`
    wallet,       \* balances of the delegated EOA and of the other accounts on its chain
    blockTimestamp, \* block.timestamp on that chain
    lastSweep     \* the last LlamaSweepDelegate call: arguments and outcome

vars == <<config, chains, scanCall, scanReturn, now, nextCleanup, quoteStore, lastOp,
          vault, ledger, lastTx, lastReport, mempool, sweeps, routeCall, routeReturn,
          delegate, wallet, blockTimestamp, lastSweep>>

scanVars  == <<scanCall, scanReturn>>
quoteVars == <<now, nextCleanup, quoteStore, lastOp>>
vaultVars == <<vault, ledger, lastTx, lastReport, mempool>>
sweepVars == <<sweeps>>
routeVars == <<routeCall, routeReturn>>
delegateVars == <<delegate, wallet, blockTimestamp, lastSweep>>

-----------------------------------------------------------------------------
(* Values of the JavaScript/Solidity world *)

\* An optional value (undefined, null, a failed call, an omitted map entry)
\* is the empty tuple; a present value x is <<x>>.
None == <<>>
Some(x) == <<x>>
IsSome(o) == o # <<>>
Get(o) == o[1]

Undefined == "undefined"   \* an absent string-valued entry
ZERO_ADDRESS == "0x0000"

-----------------------------------------------------------------------------
(* Bounds of the model *)

MaxBalance == 2        \* token balances range over 0..MaxBalance whole tokens

-----------------------------------------------------------------------------
(* solver/src/config *)

minDustValueUsd == 1       \* 0.01 USD
maxDustValueUsd == 1000    \* 10 USD
quoteExpirySeconds == 300
sweepDeadlineSeconds == 3600
maxFeeBps == 2000

\* The chains of SUPPORTED_CHAINS the model keeps: Ethereum, Gnosis, Base.
\* Object.keys lists integer keys in ascending order.
getSupportedChainIds == <<1, 100, 8453>>

SupportedChainSet == {getSupportedChainIds[i] : i \in 1..Len(getSupportedChainIds)}

\* a variant of the registry lookup that answers for every chain id
getChainConfig_any(chainId) ==
    IF chainId \in DOMAIN chains THEN Some(chains[chainId])
    ELSE Some([delegateAddress |-> None, vaultAddress |-> None])

\* getChainConfig(chainId): SUPPORTED_CHAINS[chainId], or undefined
getChainConfig(chainId) ==
    IF chainId \in DOMAIN chains THEN Some(chains[chainId]) ELSE None

-----------------------------------------------------------------------------
(* solver/src/services/balanceScanner.ts *)

\* chainIdToLlama / chainToLlama / chainToNative: the chains DefiLlama is asked about
chainIdToLlama(chainId) ==
    CASE chainId = 1 -> "ethereum"
      [] chainId = 8453 -> "base"
      [] chainId = 43114 -> "avax"
      [] OTHER -> Undefined

\* getCommonTokensForChain(chainId), by token address.  Of Ethereum's five
\* entries the model keeps the first (USDC); Base lists USDC only and Gnosis
\* has no entry.
getCommonTokensForChain(chainId) ==
    CASE chainId = 1 -> <<"0xa0b8">>
      [] chainId = 8453 -> <<"0x8335">>
      [] OTHER -> <<>>

SeqToSet(s) == {s[i] : i \in 1..Len(s)}

\* The coin key `${chain}:${address}` of a token
CoinKey(chainId, address) == <<chainIdToLlama(chainId), address>>

\* fetchPrices(tokens): the Map of the prices DefiLlama returned.  `oracle`
\* gives, per token address of the chain, the price in the response, or
\* None when the response omits the coin or the request failed.
fetchPrices(tokens, oracle) ==
    LET asked == {t \in tokens : chainIdToLlama(t.chainId) # Undefined}
        priced == {t \in asked : IsSome(oracle[t.address])}
    IN  [k \in {CoinKey(t.chainId, t.address) : t \in priced} |->
            LET t == CHOOSE t \in priced : CoinKey(t.chainId, t.address) = k
            IN  Get(oracle[t.address])]

\* prices.get(key) || 0
PriceOrZero(prices, key) == IF key \in DOMAIN prices THEN prices[key] ELSE 0

TokenBalance(chainId, address, balance, price) ==
    [chainId |-> chainId, address |-> address, balance |-> balance,
     priceUsd |-> price, valueUsd |-> balance * price]

\* The native-balance part of scanChainBalances
NativeBalances(chainId, rpc) ==
    IF Get(rpc.native) > 0
    THEN LET prices == fetchPrices({[chainId |-> chainId, address |-> ZERO_ADDRESS]},
                                   rpc.oracle)
             nativePrice == PriceOrZero(prices, CoinKey(chainId, ZERO_ADDRESS))
         IN  <<TokenBalance(chainId, ZERO_ADDRESS, Get(rpc.native), nativePrice)>>
    ELSE <<>>

\* The common-token part of scanChainBalances: a balanceOf read that fails
\* is dropped by the inner Promise.allSettled, as is a zero balance.
CommonTokenBalances(chainId, rpc) ==
    LET commonTokens == getCommonTokensForChain(chainId)
        HasBalance(i) == IsSome(rpc.tokens[i]) /\ Get(rpc.tokens[i]) > 0
        withBalance == SelectSeq([i \in 1..Len(commonTokens) |-> i], HasBalance)
        prices == fetchPrices({[chainId |-> chainId, address |-> commonTokens[withBalance[j]]] :
                                 j \in 1..Len(withBalance)}, rpc.oracle)
    IN  [j \in 1..Len(withBalance) |->
            LET i == withBalance[j]
            IN  TokenBalance(chainId, commonTokens[i], Get(rpc.tokens[i]),
                             PriceOrZero(prices, CoinKey(chainId, commonTokens[i])))]

\* scanChainBalances(userAddress, chainId) as Promise.allSettled sees it
scanChainBalances(chainId, rpc) ==
    IF getChainConfig(chainId) = None \/ rpc.native = None
    THEN [status |-> "rejected"]
    ELSE [status |-> "fulfilled",
          value |-> NativeBalances(chainId, rpc) \o CommonTokenBalances(chainId, rpc)]

\* options?.x ?? default
Coalesce(x, default) == IF x = None THEN default ELSE Get(x)

\* options?.includeChains?.length: a non-empty list was passed
HasLength(list) == IsSome(list) /\ Get(list) # {}

\* a variant in which excludeChains is ignored once includeChains is given
ActiveChainIds_includeWins(options) ==
    IF HasLength(options.includeChains)
    THEN SelectSeq(getSupportedChainIds, LAMBDA id : id \in Get(options.includeChains))
    ELSE IF HasLength(options.excludeChains)
    THEN SelectSeq(getSupportedChainIds, LAMBDA id : id \notin Get(options.excludeChains))
    ELSE getSupportedChainIds

\* the active chain ids of scanAllBalances
ActiveChainIds(options) ==
    LET included == IF HasLength(options.includeChains)
                    THEN SelectSeq(getSupportedChainIds,
                                   LAMBDA id : id \in Get(options.includeChains))
                    ELSE getSupportedChainIds
    IN  IF HasLength(options.excludeChains)
        THEN SelectSeq(included, LAMBDA id : id \notin Get(options.excludeChains))
        ELSE included

\* a variant of the dust filter that forgets the upper bound
InDustRange_noMax(b, minValue, maxValue) == b.valueUsd >= minValue

\* the dust filter: b.valueUsd >= minValue && b.valueUsd <= maxValue
InDustRange(b, minValue, maxValue) == b.valueUsd >= minValue /\ b.valueUsd <= maxValue

RECURSIVE Flatten(_)
Flatten(results) ==
    IF results = <<>> THEN <<>>
    ELSE (IF Head(results).status = "fulfilled" THEN Head(results).value ELSE <<>>)
         \o Flatten(Tail(results))

\* Array.prototype.sort((a, b) => b.valueUsd - a.valueUsd): stable, descending
RECURSIVE InsertDesc(_, _)
InsertDesc(b, sorted) ==
    IF sorted = <<>> THEN <<b>>
    ELSE IF b.valueUsd > Head(sorted).valueUsd THEN <<b>> \o sorted
    ELSE <<Head(sorted)>> \o InsertDesc(b, Tail(sorted))

RECURSIVE SortDesc(_)
SortDesc(s) ==
    IF s = <<>> THEN <<>>
    ELSE InsertDesc(s[Len(s)], SortDesc(SubSeq(s, 1, Len(s) - 1)))

RECURSIVE SumValue(_)
SumValue(s) == IF s = <<>> THEN 0 ELSE Head(s).valueUsd + SumValue(Tail(s))

\* Promise.allSettled over the chain scans.  `order` lists the task indexes
\* in the order in which the tasks settle; each outcome is stored at the
\* index of its task, and the array is handed over once every task has
\* settled.
RECURSIVE StoreSettled(_, _, _, _)
StoreSettled(results, chainIds, rpc, order) ==
    IF order = <<>> THEN results
    ELSE LET i == Head(order)
         IN  StoreSettled([results EXCEPT
                              ![i] = scanChainBalances(chainIds[i], rpc[chainIds[i]])],
                          chainIds, rpc, Tail(order))

\* a variant that collects the outcomes in the order in which the tasks settle
SettleAllInOrder_arrival(chainIds, rpc, order) ==
    [j \in 1..Len(order) |->
        scanChainBalances(chainIds[order[j]], rpc[chainIds[order[j]]])]

SettleAllInOrder(chainIds, rpc, order) ==
    StoreSettled([i \in 1..Len(chainIds) |-> [status |-> "pending"]], chainIds, rpc, order)

\* the orders in which n tasks can settle
SettleOrders(n) ==
    {o \in [1..n -> 1..n] : \A i, j \in 1..n : o[i] = o[j] => i = j}

\* the order in which the n tasks were started
StartOrder(n) == [i \in 1..n |-> i]

Summarise(dustBalances) ==
    [totalValueUsd |-> SumValue(dustBalances),
     tokenCount |-> Len(dustBalances),
     chainCount |-> Cardinality({dustBalances[i].chainId : i \in 1..Len(dustBalances)}),
     balances |-> dustBalances]

\* a variant that awaits the chain scans with Promise.all
scanAllBalancesSettling_all(options, rpc, order) ==
    LET chainResults == SettleAllInOrder(ActiveChainIds(options), rpc, order)
    IN  IF \E i \in 1..Len(chainResults) : chainResults[i].status = "rejected"
        THEN [status |-> "rejected"]
        ELSE [status |-> "resolved",
              value |-> Summarise(SortDesc(SelectSeq(Flatten(chainResults),
                            LAMBDA b : InDustRange(b,
                                Coalesce(options.minValueUsd, minDustValueUsd),
                                Coalesce(options.maxValueUsd, maxDustValueUsd)))))]

\* scanAllBalances(userAddress, options) when the chain scans settle in `order`
scanAllBalancesSettling(options, rpc, order) ==
    LET minValue == Coalesce(options.minValueUsd, minDustValueUsd)
        maxValue == Coalesce(options.maxValueUsd, maxDustValueUsd)
        chainResults == SettleAllInOrder(ActiveChainIds(options), rpc, order)
        allBalances == Flatten(chainResults)
        dustBalances == SelectSeq(allBalances, LAMBDA b : InDustRange(b, minValue, maxValue))
    IN  [status |-> "resolved", value |-> Summarise(SortDesc(dustBalances))]

\* scanAllBalances(userAddress, options), the chain scans settling in the
\* order in which they were started
scanAllBalances(options, rpc) ==
    scanAllBalancesSettling(options, rpc, StartOrder(Len(ActiveChainIds(options))))

-----------------------------------------------------------------------------
(* solver/src/services/quoteService.ts *)

CleanupIntervalMs == 60000   \* setInterval(..., 60000)

\* quoteStore.set / quoteStore.delete
StorePut(store, id, entry) ==
    [k \in DOMAIN store \cup {id} |-> IF k = id THEN entry ELSE store[k]]
StoreDelete(store, ids) == [k \in DOMAIN store \ ids |-> store[k]]

\* the expiry test of the periodic cleanup: entry.quote.expiresAt < now
ExpiredAtCleanup(entry, t) == entry.quote.expiresAt < t

\* a variant of the lookup's test that also treats t = expiresAt as expired
ExpiredAtLookup_inclusive(entry, t) == entry.quote.expiresAt <= t

\* the expiry test of getQuote: entry.quote.expiresAt < Date.now()
ExpiredAtLookup(entry, t) == entry.quote.expiresAt < t

\* the body of the setInterval callback, run at time t
cleanupExpired(store, t) ==
    StoreDelete(store, {id \in DOMAIN store : ExpiredAtCleanup(store[id], t)})

\* getQuote(quoteId) at time t: the value returned and the store it leaves
getQuote(store, quoteId, t) ==
    IF quoteId \notin DOMAIN store
    THEN [result |-> None, store |-> store]
    ELSE IF ExpiredAtLookup(store[quoteId], t)
    THEN [result |-> None, store |-> StoreDelete(store, {quoteId})]
    ELSE [result |-> Some(store[quoteId].quote), store |-> store]

\* the chain ids of the balances, in order of first appearance (Map insertion order)
RECURSIVE ChainsInOrder(_)
ChainsInOrder(balances) ==
    IF balances = <<>> THEN <<>>
    ELSE LET rest == ChainsInOrder(SubSeq(balances, 1, Len(balances) - 1))
             c == balances[Len(balances)].chainId
         IN  IF c \in SeqToSet(rest) THEN rest ELSE Append(rest, c)

\* a variant of the delegate test that finds no delegate anywhere
HasDelegate_never(c) == FALSE

\* chainConfig?.delegateAddress is set
HasDelegate(c) == /\ IsSome(getChainConfig(c))
                  /\ IsSome(Get(getChainConfig(c)).delegateAddress)

\* buildAuthorizationData(userAddress, balances, deadlineSeconds) at time t
buildAuthorizationData(userAddress, balances, deadlineSeconds, t) ==
    LET byChain == ChainsInOrder(balances)
        TokensOf(c) == SelectSeq(balances, LAMBDA b : b.chainId = c)
        signable == SelectSeq(byChain, HasDelegate)
        deadline == (t \div 1000) + deadlineSeconds
        authorizations ==
            [i \in 1..Len(signable) |->
                [chainId |-> signable[i],
                 delegateAddress |-> Get(Get(getChainConfig(signable[i])).delegateAddress),
                 tokens |-> [j \in 1..Len(TokensOf(signable[i])) |->
                                TokensOf(signable[i])[j].address],
                 amounts |-> [j \in 1..Len(TokensOf(signable[i])) |->
                                TokensOf(signable[i])[j].balance],
                 nonce |-> 0]]
    IN  [authorizations |-> authorizations,
         message |-> [action |-> "llamasweep", user |-> userAddress, deadline |-> deadline,
                      authorizations |->
                          [i \in 1..Len(authorizations) |->
                              [chainId |-> authorizations[i].chainId,
                               delegate |-> authorizations[i].delegateAddress,
                               tokenCount |-> Len(authorizations[i].tokens)]]],
         deadline |-> deadline]

\* donateToDefillama && !!config.defiLlamaTreasury
IsDonation(donateToDefillama, treasury) == donateToDefillama /\ IsSome(treasury)

\* a variant that charges the default fee on donations too
FeePercent_always(isDonation, defaultFeeBps) == defaultFeeBps \div 100

\* config.defaultFeeBps / 100, the fee as a percentage (the model keeps
\* defaultFeeBps to whole percents)
FeePercent(isDonation, defaultFeeBps) == IF isDonation THEN 0 ELSE defaultFeeBps \div 100

\* a variant of the no-dust test that never fires
NoDust_never(dustSummary) == FALSE

\* dustSummary.tokenCount === 0
NoDust(dustSummary) == dustSummary.tokenCount = 0

\* generateQuote(request), with `rpc` what the chains answer to the scan,
\* quoteId the 16 random bytes drawn, tDeadline what Date.now() reads in
\* buildAuthorizationData and tExpires what it reads for expiresAt; the
\* flag donateToDefillama defaults to false when the request omits it.  The
\* estimated output amount (slippage, gas estimate, destination price) is
\* left out of the quote.  The result also tells whether the scan was
\* started and, if so, how many dust tokens it returned (scan).
generateQuote(request, rpc, quoteId, tDeadline, tExpires) ==
    IF getChainConfig(request.destinationChainId) = None
    THEN [status |-> "Unsupported destination chain", scan |-> None]
    ELSE
    LET dustSummary == scanAllBalances(
                           [minValueUsd |-> request.minTokenValueUsd,
                            maxValueUsd |-> request.maxTokenValueUsd,
                            includeChains |-> request.includeChains,
                            excludeChains |-> request.excludeChains], rpc).value
    IN  IF NoDust(dustSummary)
        THEN [status |-> "No dust tokens found to sweep",
              scan |-> Some(dustSummary.tokenCount)]
        ELSE
        LET isDonation == IsDonation(Coalesce(request.donateToDefillama, FALSE),
                                     config.defiLlamaTreasury)
            feePercent == FeePercent(isDonation, config.defaultFeeBps)
            feeAmountUsd == (dustSummary.totalValueUsd * feePercent) \div 100
            recipient == IF isDonation THEN Get(config.defiLlamaTreasury)
                         ELSE request.userAddress
            dustTokens == [i \in 1..Len(dustSummary.balances) |->
                             [chainId |-> dustSummary.balances[i].chainId,
                              address |-> dustSummary.balances[i].address,
                              amount |-> dustSummary.balances[i].balance,
                              valueUsd |-> dustSummary.balances[i].valueUsd]]
        IN  [status |-> "ok",
             scan |-> Some(dustSummary.tokenCount),
             quote |->
                [quoteId |-> quoteId,
                 userAddress |-> request.userAddress,
                 dustTokens |-> dustTokens,
                 totalInputValueUsd |-> dustSummary.totalValueUsd,
                 destinationChainId |-> request.destinationChainId,
                 destinationToken |-> request.destinationToken,
                 isDonation |-> isDonation,
                 feePercent |-> feePercent,
                 feeAmountUsd |-> feeAmountUsd,
                 recipient |-> recipient,
                 expiresAt |-> tExpires + quoteExpirySeconds * 1000,
                 estimatedDurationSeconds |-> 60 + dustSummary.chainCount * 30,
                 authorizationData |->
                     buildAuthorizationData(request.userAddress, dustSummary.balances,
                                            sweepDeadlineSeconds, tDeadline)]]

-----------------------------------------------------------------------------
(* contracts/src/SolverVault.sol *)

MAX_FEE_BPS == 2000
BPS_DENOMINATOR == 10000

VaultAddress == "0xVault"
USDC == "0x8335"
DAI == "0x6B17"
Tokens == {USDC, ZERO_ADDRESS}     \* ZERO_ADDRESS stands for the native currency
VaultTokens == Tokens \cup {DAI}   \* DAI reaches the vault through swaps only
SwapRouter == "0xSwapRouter"
BridgeRouter == "0xBridgeRouter"
Accounts == {"0xOwner", "0xSolver", "0xStranger", "0xAlice", "0xTreasury", VaultAddress,
             SwapRouter, BridgeRouter, "0xRouter2"}

\* storage after the constructor has run with msg.sender = deployer
Constructed(deployer, treasury) ==
    [owner |-> deployer,
     operators |-> {deployer},
     feeBps |-> 1000,
     swapRouter |-> SwapRouter,
     bridgeRouter |-> BridgeRouter,
     defiLlamaTreasury |-> treasury,
     accumulatedFees |-> [t \in VaultTokens |-> 0],
     totalDonations |-> [t \in VaultTokens |-> 0]]

\* an ERC-20 transfer / a native value transfer of `amount`
Transfer(l, token, from, to, amount) ==
    [l EXCEPT ![token] = [@ EXCEPT ![from] = @ - amount, ![to] = @ + amount]]

\* a reverted call leaves storage and balances as they were
Revert(v, l, error) == [status |-> error, vault |-> v, ledger |-> l]

onlyOwner(v, sender) == sender = v.owner
onlyOperator(v, sender) == sender \in v.operators \/ sender = v.owner

setOperator(v, l, sender, operator, authorized) ==
    IF ~onlyOwner(v, sender) THEN Revert(v, l, "Unauthorized")
    ELSE IF operator = ZERO_ADDRESS THEN Revert(v, l, "ZeroAddress")
    ELSE [status |-> "ok", ledger |-> l,
          vault |-> [v EXCEPT !.operators = IF authorized THEN @ \cup {operator}
                                            ELSE @ \ {operator}]]

\* a variant of setFee without the cap
setFee_uncapped(v, l, sender, newFeeBps) ==
    IF ~onlyOwner(v, sender) THEN Revert(v, l, "Unauthorized")
    ELSE [status |-> "ok", ledger |-> l, vault |-> [v EXCEPT !.feeBps = newFeeBps]]

setFee(v, l, sender, newFeeBps) ==
    IF ~onlyOwner(v, sender) THEN Revert(v, l, "Unauthorized")
    ELSE IF newFeeBps > MAX_FEE_BPS THEN Revert(v, l, "FeeTooHigh")
    ELSE [status |-> "ok", ledger |-> l, vault |-> [v EXCEPT !.feeBps = newFeeBps]]

transferOwnership(v, l, sender, newOwner) ==
    IF ~onlyOwner(v, sender) THEN Revert(v, l, "Unauthorized")
    ELSE IF newOwner = ZERO_ADDRESS THEN Revert(v, l, "ZeroAddress")
    ELSE [status |-> "ok", ledger |-> l, vault |-> [v EXCEPT !.owner = newOwner]]

setSwapRouter(v, l, sender, newRouter) ==
    IF ~onlyOwner(v, sender) THEN Revert(v, l, "Unauthorized")
    ELSE IF newRouter = ZERO_ADDRESS THEN Revert(v, l, "ZeroAddress")
    ELSE [status |-> "ok", ledger |-> l, vault |-> [v EXCEPT !.swapRouter = newRouter]]

setBridgeRouter(v, l, sender, newRouter) ==
    IF ~onlyOwner(v, sender) THEN Revert(v, l, "Unauthorized")
    ELSE IF newRouter = ZERO_ADDRESS THEN Revert(v, l, "ZeroAddress")
    ELSE [status |-> "ok", ledger |-> l, vault |-> [v EXCEPT !.bridgeRouter = newRouter]]

setDefiLlamaTreasury(v, l, sender, newTreasury) ==
    IF ~onlyOwner(v, sender) THEN Revert(v, l, "Unauthorized")
    ELSE IF newTreasury = ZERO_ADDRESS THEN Revert(v, l, "ZeroAddress")
    ELSE [status |-> "ok", ledger |-> l,
          vault |-> [v EXCEPT !.defiLlamaTreasury = newTreasury]]

\* recordDustReceived only emits DustReceived
recordDustReceived(v, l, sender, user, token, amount) ==
    IF ~onlyOperator(v, sender) THEN Revert(v, l, "Unauthorized")
    ELSE [status |-> "ok", ledger |-> l, vault |-> v]

\* swapDust.  `swapData` is what the configured router does when called with
\* it: it fails, or it takes amountIn of tokenIn under the approval just
\* given and sends `out` of tokenOut to the vault, which it can do only if it
\* holds that much.
swapDust(v, l, sender, tokenIn, tokenOut, amountIn, minAmountOut, swapData) ==
    IF ~onlyOperator(v, sender) THEN Revert(v, l, "Unauthorized")
    ELSE IF tokenIn = ZERO_ADDRESS \/ tokenOut = ZERO_ADDRESS THEN Revert(v, l, "ZeroAddress")
    ELSE IF amountIn = 0 THEN Revert(v, l, "ZeroAmount")
    ELSE IF l[tokenIn][VaultAddress] < amountIn THEN Revert(v, l, "InsufficientBalance")
    ELSE IF swapData.kind = "fail" \/ l[tokenOut][v.swapRouter] < swapData.out
    THEN Revert(v, l, "SwapFailed")
    ELSE
    LET balanceBefore == l[tokenOut][VaultAddress]
        after == Transfer(Transfer(l, tokenIn, VaultAddress, v.swapRouter, amountIn),
                          tokenOut, v.swapRouter, VaultAddress, swapData.out)
        amountOut == after[tokenOut][VaultAddress] - balanceBefore
    IN  IF amountOut < minAmountOut THEN Revert(v, l, "SwapFailed")
        ELSE [status |-> "ok", ledger |-> after, vault |-> v, amountOut |-> amountOut]

\* bridgeToUser, called without value.  `bridgeData` is what the configured
\* bridge router does when called with it: it fails, or it takes the
\* approved userAmount of the token from the vault.
bridgeToUser(v, l, sender, user, token, amount, destChainId, bridgeData, isDonation) ==
    IF ~onlyOperator(v, sender) THEN Revert(v, l, "Unauthorized")
    ELSE IF user = ZERO_ADDRESS THEN Revert(v, l, "InvalidRecipient")
    ELSE IF token = ZERO_ADDRESS THEN Revert(v, l, "ZeroAddress")
    ELSE IF amount = 0 THEN Revert(v, l, "ZeroAmount")
    ELSE
    LET feeAmount == IF isDonation THEN 0 ELSE (amount * v.feeBps) \div BPS_DENOMINATOR
        userAmount == amount - feeAmount
        recipient == IF isDonation THEN v.defiLlamaTreasury ELSE user
    IN  IF bridgeData.kind = "fail" \/ l[token][VaultAddress] < userAmount
        THEN Revert(v, l, "BridgeFailed")
        ELSE [status |-> "ok",
              vault |-> [v EXCEPT
                  !.accumulatedFees[token] = @ + feeAmount,
                  !.totalDonations[token] = IF isDonation THEN @ + amount ELSE @],
              ledger |-> Transfer(l, token, VaultAddress, v.bridgeRouter, userAmount),
              recipient |-> recipient, amount |-> amount,
              feeAmount |-> feeAmount, userAmount |-> userAmount]

withdrawFees(v, l, sender, token, to) ==
    IF ~onlyOwner(v, sender) THEN Revert(v, l, "Unauthorized")
    ELSE IF to = ZERO_ADDRESS THEN Revert(v, l, "ZeroAddress")
    ELSE IF v.accumulatedFees[token] = 0 THEN Revert(v, l, "ZeroAmount")
    ELSE IF l[token][VaultAddress] < v.accumulatedFees[token]
    THEN Revert(v, l, "TransferFailed")
    ELSE [status |-> "ok",
          vault |-> [v EXCEPT !.accumulatedFees[token] = 0],
          ledger |-> Transfer(l, token, VaultAddress, to, v.accumulatedFees[token])]

\* a variant of emergencyWithdraw that operators may call
emergencyWithdraw_operator(v, l, sender, token, to, amount) ==
    IF ~onlyOperator(v, sender) THEN Revert(v, l, "Unauthorized")
    ELSE IF to = ZERO_ADDRESS THEN Revert(v, l, "ZeroAddress")
    ELSE IF amount = 0 THEN Revert(v, l, "ZeroAmount")
    ELSE IF l[token][VaultAddress] < amount THEN Revert(v, l, "TransferFailed")
    ELSE [status |-> "ok", vault |-> v,
          ledger |-> Transfer(l, token, VaultAddress, to, amount)]

emergencyWithdraw(v, l, sender, token, to, amount) ==
    IF ~onlyOwner(v, sender) THEN Revert(v, l, "Unauthorized")
    ELSE IF to = ZERO_ADDRESS THEN Revert(v, l, "ZeroAddress")
    ELSE IF amount = 0 THEN Revert(v, l, "ZeroAmount")
    ELSE IF l[token][VaultAddress] < amount THEN Revert(v, l, "TransferFailed")
    ELSE [status |-> "ok", vault |-> v,
          ledger |-> Transfer(l, token, VaultAddress, to, amount)]

\* a variant of settle that pays a donation to the address passed as `user`
settle_toUser(v, l, sender, user, token, amount, isDonation) ==
    IF ~onlyOperator(v, sender) THEN Revert(v, l, "Unauthorized")
    ELSE IF user = ZERO_ADDRESS THEN Revert(v, l, "InvalidRecipient")
    ELSE IF token = ZERO_ADDRESS THEN Revert(v, l, "ZeroAddress")
    ELSE IF amount = 0 THEN Revert(v, l, "ZeroAmount")
    ELSE
    LET feeAmount == IF isDonation THEN 0 ELSE (amount * v.feeBps) \div BPS_DENOMINATOR
        userAmount == amount - feeAmount
    IN  IF l[token][VaultAddress] < userAmount THEN Revert(v, l, "TransferFailed")
        ELSE [status |-> "ok",
              vault |-> [v EXCEPT
                  !.accumulatedFees[token] = @ + feeAmount,
                  !.totalDonations[token] = IF isDonation THEN @ + amount ELSE @],
              ledger |-> Transfer(l, token, VaultAddress, user, userAmount),
              recipient |-> user, amount |-> amount,
              feeAmount |-> feeAmount, userAmount |-> userAmount]

settle(v, l, sender, user, token, amount, isDonation) ==
    IF ~onlyOperator(v, sender) THEN Revert(v, l, "Unauthorized")
    ELSE IF user = ZERO_ADDRESS THEN Revert(v, l, "InvalidRecipient")
    ELSE IF token = ZERO_ADDRESS THEN Revert(v, l, "ZeroAddress")
    ELSE IF amount = 0 THEN Revert(v, l, "ZeroAmount")
    ELSE
    LET feeAmount == IF isDonation THEN 0 ELSE (amount * v.feeBps) \div BPS_DENOMINATOR
        userAmount == amount - feeAmount
        recipient == IF isDonation THEN v.defiLlamaTreasury ELSE user
    IN  IF l[token][VaultAddress] < userAmount THEN Revert(v, l, "TransferFailed")
        ELSE [status |-> "ok",
              vault |-> [v EXCEPT
                  !.accumulatedFees[token] = @ + feeAmount,
                  !.totalDonations[token] = IF isDonation THEN @ + amount ELSE @],
              ledger |-> Transfer(l, token, VaultAddress, recipient, userAmount),
              recipient |-> recipient, amount |-> amount,
              feeAmount |-> feeAmount, userAmount |-> userAmount]

\* settleNative is not payable: a call that carries value reverts on entry
settleNative(v, l, sender, value, user, amount, isDonation) ==
    IF value > 0 THEN Revert(v, l, "NotPayable")
    ELSE IF ~onlyOperator(v, sender) THEN Revert(v, l, "Unauthorized")
    ELSE IF user = ZERO_ADDRESS THEN Revert(v, l, "InvalidRecipient")
    ELSE IF amount = 0 THEN Revert(v, l, "ZeroAmount")
    ELSE IF l[ZERO_ADDRESS][VaultAddress] < amount THEN Revert(v, l, "InsufficientBalance")
    ELSE
    LET feeAmount == IF isDonation THEN 0 ELSE (amount * v.feeBps) \div BPS_DENOMINATOR
        userAmount == amount - feeAmount
        recipient == IF isDonation THEN v.defiLlamaTreasury ELSE user
    IN  [status |-> "ok",
         vault |-> [v EXCEPT
             !.accumulatedFees[ZERO_ADDRESS] = @ + feeAmount,
             !.totalDonations[ZERO_ADDRESS] = IF isDonation THEN @ + amount ELSE @],
         ledger |-> Transfer(l, ZERO_ADDRESS, VaultAddress, recipient, userAmount),
         recipient |-> recipient, amount |-> amount,
         feeAmount |-> feeAmount, userAmount |-> userAmount]

\* a variant of calculateFee that rounds the fee up
calculateFee_ceil(v, grossAmount, isDonation) ==
    LET feeAmount == IF isDonation THEN 0
                     ELSE (grossAmount * v.feeBps + BPS_DENOMINATOR - 1) \div BPS_DENOMINATOR
    IN  <<grossAmount - feeAmount, feeAmount>>

\* calculateFee returns the pair (netAmount, feeAmount), in this order
calculateFee(v, grossAmount, isDonation) ==
    LET feeAmount == IF isDonation THEN 0
                     ELSE (grossAmount * v.feeBps) \div BPS_DENOMINATOR
        netAmount == grossAmount - feeAmount
    IN  <<netAmount, feeAmount>>

-----------------------------------------------------------------------------
(* contracts/src/LlamaSweepDelegate.sol *)

\* Under EIP-7702 the contract's code runs at the user's account: `self` is
\* address(this), the delegated EOA whose tokens are swept.

SweepTokens == {USDC, DAI, ZERO_ADDRESS}   \* ZERO_ADDRESS stands for the native currency
DelegateAccounts == {"0xAlice", "0xSolver", "0xStranger"}

MAX_DEADLINE_EXTENSION == 3600   \* 1 hours

\* isValidDeadline(deadline) at block.timestamp = timestamp
isValidDeadline(timestamp, deadline) ==
    deadline > timestamp /\ deadline <= timestamp + MAX_DEADLINE_EXTENSION

\* storage after the constructor has run with a non-zero _solver
DelegateConstructed(_solver) == [solver |-> _solver]

\* a reverted call leaves every balance as it was
SweepReverted(w, error) == [status |-> error, wallet |-> w]

\* the loop of sweep from entry i on; a token's transfer fails when the
\* account holds less than the amount.  On a failure the result carries the
\* balances as the loop left them.
RECURSIVE SweepLoop(_, _, _, _, _, _)
SweepLoop(d, w, self, tokens, amounts, i) ==
    IF i > Len(tokens) THEN [status |-> "ok", wallet |-> w]
    ELSE IF tokens[i] = ZERO_ADDRESS THEN [status |-> "InvalidToken", wallet |-> w]
    ELSE IF amounts[i] = 0 THEN [status |-> "ZeroAmount", wallet |-> w]
    ELSE IF w[tokens[i]][self] < amounts[i] THEN [status |-> "TransferFailed", wallet |-> w]
    ELSE SweepLoop(d, Transfer(w, tokens[i], self, d.solver, amounts[i]),
                   self, tokens, amounts, i + 1)

\* a variant of sweep in which a failing entry leaves the earlier transfers done
sweep_partial(d, w, self, sender, timestamp, tokens, amounts, deadline) ==
    IF sender # d.solver THEN SweepReverted(w, "Unauthorized")
    ELSE IF timestamp > deadline THEN SweepReverted(w, "DeadlineExpired")
    ELSE IF Len(tokens) # Len(amounts) THEN SweepReverted(w, "LengthMismatch")
    ELSE SweepLoop(d, w, self, tokens, amounts, 1)

sweep(d, w, self, sender, timestamp, tokens, amounts, deadline) ==
    IF sender # d.solver THEN SweepReverted(w, "Unauthorized")
    ELSE IF timestamp > deadline THEN SweepReverted(w, "DeadlineExpired")
    ELSE IF Len(tokens) # Len(amounts) THEN SweepReverted(w, "LengthMismatch")
    ELSE LET r == SweepLoop(d, w, self, tokens, amounts, 1)
         IN  IF r.status = "ok" THEN r ELSE SweepReverted(w, r.status)

sweepNative(d, w, self, sender, timestamp, amount, deadline) ==
    IF sender # d.solver THEN SweepReverted(w, "Unauthorized")
    ELSE IF timestamp > deadline THEN SweepReverted(w, "DeadlineExpired")
    ELSE IF amount = 0 THEN SweepReverted(w, "ZeroAmount")
    ELSE IF w[ZERO_ADDRESS][self] < amount THEN SweepReverted(w, "TransferFailed")
    ELSE [status |-> "ok", wallet |-> Transfer(w, ZERO_ADDRESS, self, d.solver, amount)]

\* receive() external payable {}: a plain transfer of `value` to the
\* delegated account is accepted from anyone who holds it
receive(w, self, sender, value) ==
    IF w[ZERO_ADDRESS][sender] < value THEN SweepReverted(w, "InsufficientBalance")
    ELSE [status |-> "ok", wallet |-> Transfer(w, ZERO_ADDRESS, sender, self, value)]

\* a variant of sweepAll without the access check
sweepAll_anyone(d, w, self, sender, timestamp, token, deadline) ==
    IF timestamp > deadline THEN SweepReverted(w, "DeadlineExpired")
    ELSE IF token = ZERO_ADDRESS THEN SweepReverted(w, "InvalidToken")
    ELSE IF w[token][self] = 0 THEN SweepReverted(w, "ZeroAmount")
    ELSE [status |-> "ok", wallet |-> Transfer(w, token, self, d.solver, w[token][self])]

sweepAll(d, w, self, sender, timestamp, token, deadline) ==
    IF sender # d.solver THEN SweepReverted(w, "Unauthorized")
    ELSE IF timestamp > deadline THEN SweepReverted(w, "DeadlineExpired")
    ELSE IF token = ZERO_ADDRESS THEN SweepReverted(w, "InvalidToken")
    ELSE IF w[token][self] = 0 THEN SweepReverted(w, "ZeroAmount")
    ELSE [status |-> "ok", wallet |-> Transfer(w, token, self, d.solver, w[token][self])]

\* a variant of sweepAllNative without the deadline check
sweepAllNative_anytime(d, w, self, sender, timestamp, deadline) ==
    IF sender # d.solver THEN SweepReverted(w, "Unauthorized")
    ELSE IF w[ZERO_ADDRESS][self] = 0 THEN SweepReverted(w, "ZeroAmount")
    ELSE [status |-> "ok",
          wallet |-> Transfer(w, ZERO_ADDRESS, self, d.solver, w[ZERO_ADDRESS][self])]

sweepAllNative(d, w, self, sender, timestamp, deadline) ==
    IF sender # d.solver THEN SweepReverted(w, "Unauthorized")
    ELSE IF timestamp > deadline THEN SweepReverted(w, "DeadlineExpired")
    ELSE IF w[ZERO_ADDRESS][self] = 0 THEN SweepReverted(w, "ZeroAmount")
    ELSE [status |-> "ok",
          wallet |-> Transfer(w, ZERO_ADDRESS, self, d.solver, w[ZERO_ADDRESS][self])]

-----------------------------------------------------------------------------
(* solver/src/services/settlementService.ts *)

\* A transaction of the solver account.  `kind` is the call it carries:
\* "settle" and "settleNative" are calls to the vault, "transfer" is an
\* ERC-20 transfer of `amount` to `user`, and "send" hands `value` of the
\* native currency to `user` together with calldata built by a provider.
Transaction(kind, sender, user, token, amount, isDonation, value) ==
    [kind |-> kind, sender |-> sender, user |-> user, token |-> token,
     amount |-> amount, isDonation |-> isDonation, value |-> value]

\* what the chain does with a transaction in state (v, l).  Gas is not
\* counted; what the provider's calldata does at its target is outside the
\* repository, so of a "send" only the value moves.
execute(tx, v, l) ==
    IF tx.kind = "settle"
    THEN settle(v, l, tx.sender, tx.user, tx.token, tx.amount, tx.isDonation)
    ELSE IF tx.kind = "settleNative"
    THEN settleNative(v, l, tx.sender, tx.value, tx.user, tx.amount, tx.isDonation)
    ELSE IF tx.kind = "transfer"
    THEN IF l[tx.token][tx.sender] < tx.amount THEN Revert(v, l, "TransferFailed")
         ELSE [status |-> "ok", vault |-> v,
               ledger |-> Transfer(l, tx.token, tx.sender, tx.user, tx.amount)]
    ELSE IF l[ZERO_ADDRESS][tx.sender] < tx.value THEN Revert(v, l, "InsufficientFunds")
         ELSE [status |-> "ok", vault |-> v,
               ledger |-> Transfer(l, ZERO_ADDRESS, tx.sender, tx.user, tx.value)]

\* how a request to the RPC node ends: answered, failed with an Error, or
\* rejected with a value that is not an Error
RpcOutcomes == {"ok", "error", "rejected"}

\* client.sendTransaction: gas is estimated against the mined state (v, l),
\* so a call that would revert there throws and nothing is sent; otherwise
\* the hash is returned as soon as the node has accepted the transaction.
\* `message` is error.message of what was thrown, None when it is no Error.
sendTransaction(tx, v, l, rpc) ==
    IF rpc = "error" THEN [sent |-> FALSE, message |-> Some("HTTP request failed")]
    ELSE IF rpc = "rejected" THEN [sent |-> FALSE, message |-> None]
    ELSE IF execute(tx, v, l).status # "ok"
    THEN [sent |-> FALSE, message |-> Some(execute(tx, v, l).status)]
    ELSE [sent |-> TRUE, message |-> None]

\* settleFunds(quote, totalCollected, collectedToken) with the chain in
\* state (v, l): the report it returns and the transaction it has sent, if
\* any.  It returns when sendTransaction has; no receipt is awaited.
settleFunds(quote, totalCollected, collectedToken, v, l, rpc) ==
    IF config.solverPrivateKey = None
    THEN [report |-> [success |-> FALSE, error |-> "Solver private key not configured"],
          submitted |-> None]
    ELSE IF \/ getChainConfig(quote.destinationChainId) = None
            \/ Get(getChainConfig(quote.destinationChainId)).vaultAddress = None
    THEN [report |-> [success |-> FALSE, error |-> "No vault address for chain"],
          submitted |-> None]
    ELSE
    LET account == Get(config.solverPrivateKey)
        isNative == collectedToken = ZERO_ADDRESS
        tx == IF isNative
              THEN Transaction("settleNative", account, quote.recipient, ZERO_ADDRESS,
                               totalCollected, quote.isDonation, totalCollected)
              ELSE Transaction("settle", account, quote.recipient, collectedToken,
                               totalCollected, quote.isDonation, 0)
        txHash == sendTransaction(tx, v, l, rpc)
        feeAmount == IF quote.isDonation THEN 0
                     ELSE (totalCollected * config.defaultFeeBps) \div 10000
        userAmount == totalCollected - feeAmount
    IN  IF ~txHash.sent
        THEN [report |-> [success |-> FALSE,
                          error |-> Coalesce(txHash.message, "Settlement failed")],
              submitted |-> None]
        ELSE [report |-> [success |-> TRUE, amountSent |-> userAmount, fee |-> feeAmount],
              submitted |-> Some(tx)]

\* directTransfer(chainId, recipient, token, amount): the solver account
\* pays the recipient itself, without the vault
directTransfer(chainId, recipient, token, amount, v, l, rpc) ==
    IF config.solverPrivateKey = None
    THEN [report |-> [success |-> FALSE, error |-> "Solver private key not configured"],
          submitted |-> None]
    ELSE IF getChainConfig(chainId) = None
    THEN [report |-> [success |-> FALSE, error |-> "Unsupported chain"],
          submitted |-> None]
    ELSE
    LET account == Get(config.solverPrivateKey)
        isNative == token = ZERO_ADDRESS
        tx == IF isNative
              THEN Transaction("send", account, recipient, ZERO_ADDRESS, amount, FALSE, amount)
              ELSE Transaction("transfer", account, recipient, token, amount, FALSE, 0)
        txHash == sendTransaction(tx, v, l, rpc)
    IN  IF ~txHash.sent
        THEN [report |-> [success |-> FALSE,
                          error |-> Coalesce(txHash.message, "Transfer failed")],
              submitted |-> None]
        ELSE [report |-> [success |-> TRUE, amountSent |-> amount, fee |-> 0],
              submitted |-> Some(tx)]

\* getVaultFeeCalculation(chainId, amount, isDonation): the two values that
\* calculateFee returns are read as (fee, userAmount); null when the chain
\* has no vault or readContract throws (readOk is FALSE)
getVaultFeeCalculation(chainId, amount, isDonation, v, readOk) ==
    IF \/ getChainConfig(chainId) = None
       \/ Get(getChainConfig(chainId)).vaultAddress = None
    THEN None
    ELSE IF ~readOk THEN None
    ELSE LET result == calculateFee(v, amount, isDonation)
         IN  Some([fee |-> result[1], userAmount |-> result[2]])

-----------------------------------------------------------------------------
(* solver/src/services/sweepExecutor.ts *)

\* tokensByChain.get(chainId): the quote's dust tokens on one chain
TokensOn(quote, chainId) == SelectSeq(quote.dustTokens, LAMBDA t : t.chainId = chainId)

\* executeSweepOnChain: the delegate calls it sends for the chain's tokens,
\* in order: sweep for the ERC-20 tokens if any, then sweepNative if the
\* native token is among them
SweepSubmissions(tokens) ==
    (IF \E i \in 1..Len(tokens) : tokens[i].address # ZERO_ADDRESS
     THEN <<"sweep">> ELSE <<>>)
    \o (IF \E i \in 1..Len(tokens) : tokens[i].address = ZERO_ADDRESS
        THEN <<"sweepNative">> ELSE <<>>)

\* a variant that sends all of a chain's calls without awaiting any
Batch_all(pending) == pending

\* txHash = await client.sendTransaction(...): the next call is sent only
\* when the previous one has returned
Batch(pending) == <<Head(pending)>>

\* a variant of the aggregation for which one failed chain fails the whole
Aggregate_strict(results) ==
    IF \A i \in 1..Len(results) : results[i].success THEN "swapping" ELSE "failed"

\* allSuccess / anySuccess -> status
Aggregate(results) ==
    IF \A i \in 1..Len(results) : results[i].success THEN "swapping"
    ELSE IF \E i \in 1..Len(results) : results[i].success THEN "sweeping"
    ELSE "failed"

\* a variant of the loop that gives up after the first failed chain
RemainingAfter_abort(chainsLeft, success) ==
    IF success THEN Tail(chainsLeft) ELSE <<>>

\* for (const [chainId, tokens] of tokensByChain): the loop moves on to the
\* next chain whether the chain succeeded or its error was caught
RemainingAfter(chainsLeft, success) == Tail(chainsLeft)

Failed(chainId, error) ==
    [chainId |-> chainId, txHash |-> "0x", success |-> FALSE, error |-> error]
Succeeded(chainId, txHash) ==
    [chainId |-> chainId, txHash |-> txHash, success |-> TRUE, error |-> ""]

\* the loop of executeSweeps from its current chain up to the next await,
\* or to its return when no chain is left
RECURSIVE RunLoop(_)
RunLoop(x) ==
    IF x.chainsLeft = <<>>
    THEN [x EXCEPT !.pc = "done", !.status = Aggregate(x.results)]
    ELSE LET chainId == Head(x.chainsLeft)
             pending == SweepSubmissions(TokensOn(x.quote, chainId))
         IN  IF ~HasDelegate(chainId)
             THEN RunLoop([x EXCEPT
                     !.results = Append(@, Failed(chainId, "No delegate address configured")),
                     !.chainsLeft = RemainingAfter(@, FALSE)])
             ELSE [x EXCEPT !.pc = "awaiting",
                            !.txHash = "0x",
                            !.inflight = SeqToSet(Batch(pending)),
                            !.pending = SubSeq(pending, Len(Batch(pending)) + 1, Len(pending))]

\* executeSweeps(quote, signatures) up to its first await
executeSweeps(quote, signatures) ==
    IF config.solverPrivateKey = None
    THEN [pc |-> "thrown", error |-> "Solver private key not configured"]
    ELSE RunLoop([pc |-> "running", quote |-> quote, signatures |-> signatures,
                  chainsLeft |-> ChainsInOrder(quote.dustTokens),
                  results |-> <<>>, txs |-> <<>>, status |-> "",
                  txHash |-> "0x", inflight |-> {}, pending |-> <<>>])

\* a sendTransaction of invocation x returns: with a hash (ok), after which
\* the transaction counts as submitted, or by throwing, which the catch in
\* executeSweeps turns into a failed result for the chain
SendTransactionReturned(x, fn, ok) ==
    LET chainId == Head(x.chainsLeft)
    IN  IF ~ok
        THEN RunLoop([x EXCEPT
                !.pc = "running", !.inflight = {}, !.pending = <<>>,
                !.results = Append(@, Failed(chainId, "sendTransaction failed")),
                !.chainsLeft = RemainingAfter(@, FALSE)])
        ELSE LET y == [x EXCEPT !.txs = Append(@, [chainId |-> chainId, fn |-> fn]),
                                !.txHash = fn,
                                !.inflight = @ \ {fn}]
             IN  IF y.inflight # {} THEN y
                 ELSE IF y.pending # <<>>
                 THEN [y EXCEPT
                         !.inflight = SeqToSet(Batch(y.pending)),
                         !.pending = SubSeq(y.pending, Len(Batch(y.pending)) + 1,
                                            Len(y.pending))]
                 ELSE RunLoop([y EXCEPT
                         !.pc = "running",
                         !.results = Append(@, Succeeded(chainId, y.txHash)),
                         !.chainsLeft = RemainingAfter(@, TRUE)])

-----------------------------------------------------------------------------
(* solver/src/services/swapService.ts and bridgeService.ts *)

\* What a provider call comes to: it threw, or it returned null (value
\* None) or a quote; queried lists the providers an HTTP request went to.
Threw(provider) == [threw |-> TRUE, value |-> None, queried |-> <<provider>>]
Answered(value, queried) == [threw |-> FALSE, value |-> value, queried |-> queried]

\* the chains in chainNames / CHAIN_TO_1INCH
AggregatorChains == {1, 42161, 10, 8453, 137, 56, 43114}

\* getLlamaSwapQuote, with `resp` what swap.defillama.com answers
getLlamaSwapQuote(chainId, resp) ==
    IF chainId \notin AggregatorChains THEN Answered(None, <<>>)
    ELSE IF resp.kind = "throw" THEN Threw("llamaswap")
    ELSE IF resp.kind = "empty" THEN Answered(None, <<"llamaswap">>)
    ELSE Answered(Some([route |-> "llamaswap", amountOut |-> resp.amountOut]),
                  <<"llamaswap">>)

\* get1inchQuote, with `resp` what api.1inch.dev answers
get1inchQuote(chainId, resp) ==
    IF chainId \notin AggregatorChains THEN Answered(None, <<>>)
    ELSE IF resp.kind = "throw" THEN Threw("1inch")
    ELSE IF resp.kind = "empty" THEN Answered(None, <<"1inch">>)
    ELSE Answered(Some([route |-> "1inch", amountOut |-> resp.amountOut]), <<"1inch">>)

\* a variant of getSwapQuote that asks both providers at once
getSwapQuote_race(chainId, world) ==
    LET primary == getLlamaSwapQuote(chainId, world.primary)
        fallback == get1inchQuote(chainId, world.fallback)
    IN  [status |-> "resolved",
         value |-> IF IsSome(primary.value) THEN primary.value ELSE fallback.value,
         queried |-> primary.queried \o fallback.queried]

\* getSwapQuote: LlamaSwap first, 1inch when LlamaSwap threw or had no quote
getSwapQuote(chainId, world) ==
    LET primary == getLlamaSwapQuote(chainId, world.primary)
    IN  IF ~primary.threw /\ IsSome(primary.value)
        THEN [status |-> "resolved", value |-> primary.value, queried |-> primary.queried]
        ELSE LET fallback == get1inchQuote(chainId, world.fallback)
             IN  [status |-> "resolved",
                  value |-> IF fallback.threw THEN None ELSE fallback.value,
                  queried |-> primary.queried \o fallback.queried]

\* getLiFiQuote, with `resp` what li.quest answers
getLiFiQuote(resp) ==
    IF resp.kind = "throw" THEN Threw("lifi")
    ELSE IF resp.kind = "empty" THEN Answered(None, <<"lifi">>)
    ELSE Answered(Some([bridgeName |-> "LI.FI", amountOut |-> resp.amountOut]), <<"lifi">>)

\* getSocketQuote, with `resp` what api.socket.tech answers: the candidate
\* routes in the order returned, and the outcome of build-tx for the
\* route chosen, which is routes[0]
getSocketQuote(resp) ==
    IF resp.kind = "throw" THEN Threw("socket")
    ELSE IF resp.kind = "empty" \/ resp.routes = <<>> THEN Answered(None, <<"socket">>)
    ELSE LET bestRoute == resp.routes[1]
         IN  IF resp.build = "throw" THEN Threw("socket")
             ELSE IF resp.build = "empty" THEN Answered(None, <<"socket">>)
             ELSE Answered(Some([bridgeName |-> "Socket",
                                 amountOut |-> bestRoute.toAmount]), <<"socket">>)

\* getBridgeQuote: LI.FI first, Socket when LI.FI threw or had no quote
getBridgeQuote(world) ==
    LET primary == getLiFiQuote(world.primary)
    IN  IF ~primary.threw /\ IsSome(primary.value)
        THEN [status |-> "resolved", value |-> primary.value, queried |-> primary.queried]
        ELSE LET fallback == getSocketQuote(world.fallback)
             IN  [status |-> "resolved",
                  value |-> IF fallback.threw THEN None ELSE fallback.value,
                  queried |-> primary.queried \o fallback.queried]

\* executeSwap(chainId, quote): the provider's transaction is sent from the
\* solver account; the amountOut reported is the quote's
executeSwap(chainId, quote, v, l, rpc) ==
    IF config.solverPrivateKey = None
    THEN [report |-> [success |-> FALSE, error |-> "Solver private key not configured"],
          submitted |-> None]
    ELSE IF getChainConfig(chainId) = None
    THEN [report |-> [success |-> FALSE, error |-> "Unsupported chain"],
          submitted |-> None]
    ELSE
    LET account == Get(config.solverPrivateKey)
        tx == Transaction("send", account, quote.to, ZERO_ADDRESS, quote.value,
                          FALSE, quote.value)
        txHash == sendTransaction(tx, v, l, rpc)
    IN  IF ~txHash.sent
        THEN [report |-> [success |-> FALSE,
                          error |-> Coalesce(txHash.message, "Swap failed")],
              submitted |-> None]
        ELSE [report |-> [success |-> TRUE, amountOut |-> quote.amountOut],
              submitted |-> Some(tx)]

\* String.prototype.toLowerCase on the addresses of the model
toLowerCase(address) == IF address = "0x6B17" THEN "0x6b17" ELSE address

\* one iteration of the loop of batchSwap, for `token` with `acc` the
\* totalOutput and results so far: `world` is what the providers answer
\* for this token and `built` the transaction (to, value) in that answer
batchSwapStep(chainId, token, outputToken, world, built, acc, v, l, rpc) ==
    IF toLowerCase(token.address) = toLowerCase(outputToken)
    THEN [acc |-> [totalOutput |-> acc.totalOutput + token.amount,
                   results |-> acc.results],
          submitted |-> None, report |-> None]
    ELSE
    LET quote == getSwapQuote(chainId, world).value
    IN  IF quote = None
        THEN [acc |-> [totalOutput |-> acc.totalOutput,
                       results |-> Append(acc.results,
                           [success |-> FALSE, error |-> "No quote available"])],
              submitted |-> None, report |-> None]
        ELSE
        LET r == executeSwap(chainId, Get(quote) @@ built, v, l, rpc)
            result == r.report
        IN  [acc |-> [totalOutput |->
                          IF result.success /\ result.amountOut # 0
                          THEN acc.totalOutput + result.amountOut
                          ELSE acc.totalOutput,
                      results |-> Append(acc.results, result)],
             submitted |-> r.submitted, report |-> Some(result)]

\* executeBridge(quote) at Date.now() = t
executeBridge(quote, t, v, l, rpc) ==
    IF config.solverPrivateKey = None
    THEN [report |-> [success |-> FALSE, error |-> "Solver private key not configured"],
          submitted |-> None]
    ELSE IF getChainConfig(quote.fromChainId) = None
    THEN [report |-> [success |-> FALSE, error |-> "Unsupported chain"],
          submitted |-> None]
    ELSE
    LET account == Get(config.solverPrivateKey)
        tx == Transaction("send", account, quote.to, ZERO_ADDRESS, quote.value,
                          FALSE, quote.value)
        txHash == sendTransaction(tx, v, l, rpc)
    IN  IF ~txHash.sent
        THEN [report |-> [success |-> FALSE,
                          error |-> Coalesce(txHash.message, "Bridge failed")],
              submitted |-> None]
        ELSE [report |-> [success |-> TRUE, bridgeName |-> quote.bridgeName,
                          estimatedArrival |-> t + quote.estimatedTime * 1000],
              submitted |-> Some(tx)]

-----------------------------------------------------------------------------
(* The inputs of a balance scan *)

Balances == {None} \cup {Some(n) : n \in 0..MaxBalance}   \* None: the RPC read failed
PriceChoices == {600}                                     \* 6 USD per token
Prices == {None} \cup {Some(p) : p \in PriceChoices}       \* None: the oracle omits the coin

ChainAddresses(chainId) == {ZERO_ADDRESS} \cup SeqToSet(getCommonTokensForChain(chainId))

\* What the chain's RPC node and the price oracle answer during one scan.
\* The oracle is only recorded for coins the scanner can ask about: a coin
\* with a positive balance on a chain DefiLlama knows.
ChainRpcs(chainId) ==
    LET n == Len(getCommonTokensForChain(chainId))
        Positive(o) == IsSome(o) /\ Get(o) > 0
        BalanceOf(r, a) ==
            IF a = ZERO_ADDRESS THEN r.native
            ELSE r.tokens[CHOOSE i \in 1..n : getCommonTokensForChain(chainId)[i] = a]
    IN  {r \in [native : Balances, tokens : [1..n -> Balances],
                oracle : [ChainAddresses(chainId) -> Prices]] :
            \A a \in ChainAddresses(chainId) :
                IsSome(r.oracle[a]) =>
                    /\ Positive(BalanceOf(r, a))
                    /\ chainIdToLlama(chainId) # Undefined}

RpcWorlds == {w \in [SupportedChainSet -> UNION {ChainRpcs(c) : c \in SupportedChainSet}] :
                \A c \in SupportedChainSet : w[c] \in ChainRpcs(c)}

MinValueChoices == {None, Some(0), Some(700)}
MaxValueChoices == {None, Some(2000)}
IncludeChoices == {None, Some({}), Some({1, 8453, 99999})}
ExcludeChoices == {None, Some({}), Some({1}), Some({100, 8453})}

\* the options of a scan: every value range without chain lists, and every
\* pair of chain lists with the configured value range
ScanOptions ==
    [minValueUsd : MinValueChoices, maxValueUsd : MaxValueChoices,
     includeChains : {None}, excludeChains : {None}]
    \cup [minValueUsd : {None}, maxValueUsd : {None},
           includeChains : IncludeChoices, excludeChains : ExcludeChoices]

-----------------------------------------------------------------------------
(* Initial values of the parts a specification leaves alone *)

\* process.env without DEFAULT_FEE_BPS, DEFILLAMA_TREASURY, SOLVER_PRIVATE_KEY
DefaultConfig == [defaultFeeBps |-> 1000, defiLlamaTreasury |-> None,
                  solverPrivateKey |-> None]

\* SUPPORTED_CHAINS as written: no entry sets delegateAddress or vaultAddress
NoContracts == [delegateAddress |-> None, vaultAddress |-> None]
ShippedChains == [c \in SupportedChainSet |-> NoContracts]

\* SUPPORTED_CHAINS once the operator has filled in the contracts deployed on Base
DeployedChains ==
    [c \in SupportedChainSet |->
        IF c = 8453 THEN [delegateAddress |-> Some("0xDelegate"),
                          vaultAddress |-> Some("0xVault")]
        ELSE NoContracts]

ScanIdle == /\ scanCall = [options |-> [minValueUsd |-> None, maxValueUsd |-> None,
                                       includeChains |-> None, excludeChains |-> None],
                          rpc |-> [c \in SupportedChainSet |-> None]]
            /\ scanReturn = [status |-> "pending"]

QuoteIdle == /\ now = 0
             /\ nextCleanup = CleanupIntervalMs
             /\ quoteStore = [id \in {} |-> None]
             /\ lastOp = [op |-> "none"]

MaxDeposits == 1          \* full-size deposits the solver can fund, per token

TxAmounts == {0, 105}                  \* amounts deposited and settled
\* the service calls whose transactions can be waiting to be mined together
Overlapping == {"first", "second"}
GrossAmounts == {0, 100, 105}          \* amounts the fee is asked for
LargestTxAmount == CHOOSE a \in TxAmounts : \A b \in TxAmounts : b <= a

\* before any sweep the collected funds are with the solver account
InitialLedger ==
    [t \in VaultTokens |-> [a \in Accounts |->
        IF t \in Tokens /\ a = "0xSolver" THEN MaxDeposits * LargestTxAmount
        ELSE IF t = DAI /\ a = SwapRouter THEN 100
        ELSE 0]]

VaultIdle == /\ vault = Constructed("0xOwner", "0xTreasury")
             /\ ledger = InitialLedger
             /\ lastTx = [op |-> "none"]
             /\ lastReport = [op |-> "none"]
             /\ mempool = <<>>

Invocations == {"e1", "e2"}      \* the executeSweeps calls that may overlap

SweepIdle == sweeps = [e \in Invocations |-> [pc |-> "idle"]]

\* block.timestamp values, in seconds, and the deadlines passed to the
\* delegate: at the first block, one second later, and more than an hour later
BlockTimes == {1000, 1001, 1002}
Deadlines == {1000, 1001, 1000 + MAX_DEADLINE_EXTENSION + 1}
FirstBlockTime == CHOOSE t \in BlockTimes : \A u \in BlockTimes : t <= u

\* what the accounts hold before any sweep: the delegated EOA its dust, and
\* another account one wei that it can send to the EOA
InitialWallet ==
    [t \in SweepTokens |-> [a \in DelegateAccounts |->
        IF a = "0xAlice" THEN (IF t = DAI THEN 1 ELSE 2)
        ELSE IF a = "0xStranger" /\ t = ZERO_ADDRESS THEN 1 ELSE 0]]

NoSweep == [op |-> "none"]

DelegateIdle == /\ delegate = DelegateConstructed("0xSolver")
                /\ wallet = InitialWallet
                /\ blockTimestamp = FirstBlockTime
                /\ lastSweep = NoSweep

RouteIdle == /\ routeCall = [fn |-> "none"]
             /\ routeReturn = [status |-> "pending"]

-----------------------------------------------------------------------------
(* The balance scan as a state machine: one call, from arguments to result *)

InitScan ==
    /\ config = DefaultConfig
    /\ chains = ShippedChains
    /\ scanCall \in [options : ScanOptions, rpc : RpcWorlds]
    /\ scanReturn = [status |-> "pending"]
    /\ QuoteIdle
    /\ VaultIdle
    /\ SweepIdle
    /\ DelegateIdle
    /\ RouteIdle

\* one call, the chain scans settling in any order
ScanAllBalances ==
    /\ scanReturn.status = "pending"
    /\ \E order \in SettleOrders(Len(ActiveChainIds(scanCall.options))) :
          scanReturn' = scanAllBalancesSettling(scanCall.options, scanCall.rpc, order)
    /\ UNCHANGED <<config, chains, delegateVars, sweepVars, routeVars, scanCall, quoteVars, vaultVars>>

NextScan == ScanAllBalances

SpecScan == InitScan /\ [][NextScan]_vars

-----------------------------------------------------------------------------
(* The quote service as a state machine: the clock, generateQuote, getQuote *)
(* and the periodic cleanup, over the shared quoteStore                     *)

MaxIntervals == 6        \* the clock runs for MaxIntervals cleanup intervals
MaxIssueIntervals == 1   \* quotes are requested during the first MaxIssueIntervals intervals

Users == {"0xAlice", "0xBob"}
QuoteIds == {"5f1d", "c0de"}       \* the values randomBytes(16) draws from
LookupIds == QuoteIds \cup {"non-existent-id"}

\* the environments the quote service is started in
QuoteConfigs ==
    {[defaultFeeBps |-> 1000, defiLlamaTreasury |-> None, solverPrivateKey |-> None],
     [defaultFeeBps |-> 500, defiLlamaTreasury |-> Some("0xTreasury"),
      solverPrivateKey |-> None]}

Rpc(native, token, priced) ==
    [native |-> native, tokens |-> token, oracle |-> priced]

\* what the chains hold when a quote is requested: nothing at all; or one
\* ETH on Ethereum, one ETH and one USDC on Base, with Gnosis unreachable
QuoteWorlds ==
    {[c \in SupportedChainSet |->
        IF c = 100 THEN Rpc(Some(0), <<>>, [a \in {ZERO_ADDRESS} |-> None])
        ELSE Rpc(Some(0), <<Some(0)>>, [a \in ChainAddresses(c) |-> None])],
     [c \in SupportedChainSet |->
        IF c = 100 THEN Rpc(None, <<>>, [a \in {ZERO_ADDRESS} |-> None])
        ELSE IF c = 1 THEN Rpc(Some(1), <<Some(0)>>,
                 [a \in ChainAddresses(c) |-> IF a = ZERO_ADDRESS THEN Some(600) ELSE None])
        ELSE Rpc(Some(1), <<Some(1)>>, [a \in ChainAddresses(c) |-> Some(600)])]}

InitQuote ==
    /\ config \in QuoteConfigs
    /\ chains = DeployedChains
    /\ ScanIdle
    /\ now = 0
    /\ nextCleanup = CleanupIntervalMs
    /\ quoteStore = [id \in {} |-> None]
    /\ lastOp = [op |-> "none"]
    /\ VaultIdle
    /\ SweepIdle
    /\ DelegateIdle
    /\ RouteIdle

\* Date.now() advances: by a cleanup interval, or by one millisecond past a
\* multiple of the interval
Tick ==
    /\ \E d \in {1, CleanupIntervalMs} :
          /\ d = 1 => now % CleanupIntervalMs = 0
          /\ now + d <= MaxIntervals * CleanupIntervalMs + 1
          /\ now' = now + d
    /\ lastOp' = [op |-> "tick"]
    /\ UNCHANGED <<config, chains, delegateVars, sweepVars, routeVars, scanVars, nextCleanup, quoteStore, vaultVars>>

\* the strings that match /^0x[a-fA-F0-9]{40}$/ among those the requests carry
WellFormedAddresses == Users \cup {"0x8335", "0xa0b8", ZERO_ADDRESS}

\* addressSchema.safeParse(x): the field is present and matches the pattern
addressSchema(x) == IsSome(x) /\ Get(x) \in WellFormedAddresses

\* a JSON value of a request body, with its type
JsonBoolean(b) == [type |-> "boolean", boolean |-> b]
JsonString(str) == [type |-> "string", string |-> str]

\* z.coerce.boolean(): Boolean(value), so every non-empty string is true
coerceBoolean(json) ==
    IF json.type = "boolean" THEN json.boolean ELSE json.string # ""

\* getQuoteSchema.safeParse(body).success: both addresses are well formed and
\* the chain id is a number (a missing one coerces to NaN)
getQuoteSchema(body) ==
    /\ addressSchema(body.userAddress)
    /\ IsSome(body.destinationChainId)
    /\ addressSchema(body.destinationToken)

\* parsed.data as handed to generateQuote: the optional fields stay undefined
\* when omitted, donateToDefillama is coerced to a boolean
ParsedRequest(body) ==
    [userAddress |-> Get(body.userAddress),
     destinationChainId |-> Get(body.destinationChainId),
     destinationToken |-> Get(body.destinationToken),
     donateToDefillama |-> IF IsSome(body.donateToDefillama)
                           THEN Some(coerceBoolean(Get(body.donateToDefillama)))
                           ELSE None,
     minTokenValueUsd |-> None, maxTokenValueUsd |-> None,
     includeChains |-> None, excludeChains |-> None]

\* the handler of POST /quote: 400 when the body does not parse, else the
\* quote generateQuote returns (an error it throws becomes the 500
\* response's message)
postQuote(body, rpc, quoteId, tDeadline, tExpires) ==
    IF ~getQuoteSchema(body)
    THEN [status |-> "Invalid request", scan |-> None]
    ELSE generateQuote(ParsedRequest(body), rpc, quoteId, tDeadline, tExpires)

\* x || default for a field that is a number or a string: a missing field
\* and the falsy value of its type (0, '') take the default
OrDefault(x, falsy, default) ==
    IF x = None \/ Get(x) = falsy THEN default ELSE Get(x)

\* the request POST /donate hands to generateQuote: destinationChainId || 1
\* and destinationToken || USDC on mainnet, with the donation flag set
DonateRequest(body) ==
    [userAddress |-> Get(body.userAddress),
     destinationChainId |-> OrDefault(body.destinationChainId, 0, 1),
     destinationToken |-> OrDefault(body.destinationToken, "", "0xa0b8"),
     donateToDefillama |-> Some(TRUE),
     minTokenValueUsd |-> None, maxTokenValueUsd |-> None,
     includeChains |-> None, excludeChains |-> None]

\* a variant of the handler without the treasury check
postDonate_unchecked(body, rpc, quoteId, tDeadline, tExpires) ==
    IF ~addressSchema(body.userAddress)
    THEN [status |-> "Invalid user address", scan |-> None]
    ELSE generateQuote(DonateRequest(body), rpc, quoteId, tDeadline, tExpires)

\* the handler of POST /donate: 400 when no treasury is configured or the
\* address is malformed, else the quote generateQuote returns (an error it
\* throws becomes the 500 response's message)
postDonate(body, rpc, quoteId, tDeadline, tExpires) ==
    IF ~IsSome(config.defiLlamaTreasury)
    THEN [status |-> "DefiLlama treasury address not configured", scan |-> None]
    ELSE IF ~addressSchema(body.userAddress)
    THEN [status |-> "Invalid user address", scan |-> None]
    ELSE generateQuote(DonateRequest(body), rpc, quoteId, tDeadline, tExpires)

\* the bodies POST /quote receives: Alice's sweeps to USDC on Base with the
\* donation flag omitted, true or the string 'false'; Bob's sweep; one
\* sweep to a chain the registry does not know; and one with a malformed
\* address
QuoteBodies ==
    [userAddress : {Some("0xAlice")}, destinationChainId : {Some(8453)},
     destinationToken : {Some("0x8335")},
     donateToDefillama : {None, Some(JsonBoolean(TRUE)), Some(JsonString("false"))}]
    \cup
    [userAddress : {Some("0xBob")}, destinationChainId : {Some(8453)},
     destinationToken : {Some("0x8335")}, donateToDefillama : {None}]
    \cup
    [userAddress : {Some("0xAlice")}, destinationChainId : {Some(99999)},
     destinationToken : {Some("0x8335")}, donateToDefillama : {None}]
    \cup
    [userAddress : {Some("alice.eth")}, destinationChainId : {Some(8453)},
     destinationToken : {Some("0x8335")}, donateToDefillama : {None}]

\* the bodies POST /donate receives: a donation to USDC on Base from a
\* well-formed address, and a malformed address with the destination left
\* to the defaults
DonateBodies ==
    [userAddress : {Some("0xAlice")},
     destinationChainId : {Some(8453)}, destinationToken : {Some("0x8335")}]
    \cup
    [userAddress : {Some("alice.eth")},
     destinationChainId : {None}, destinationToken : {None}]

\* what Date.now() reads in buildAuthorizationData, for expiresAt and for
\* createdAt, in this order, when the handler reaches them at time t: the
\* clock may move on by a millisecond between two reads (here only from a
\* multiple of the cleanup interval, as in Tick)
ClockReads(t) ==
    {<<t, t, t>>}
    \cup (IF t % CleanupIntervalMs = 0
          THEN {<<t, t, t + 1>>, <<t, t + 1, t + 1>>} ELSE {})

\* POST /quote -> generateQuote
GenerateQuote ==
    /\ now <= MaxIssueIntervals * CleanupIntervalMs + 1
    /\ \E body \in QuoteBodies, rpc \in QuoteWorlds, quoteId \in QuoteIds,
          reads \in ClockReads(now) :
          LET r == postQuote(body, rpc, quoteId, reads[1], reads[2])
          IN  IF r.status = "ok"
              THEN /\ quoteStore' = StorePut(quoteStore, quoteId,
                                             [quote |-> r.quote, createdAt |-> reads[3]])
                   /\ now' = reads[3]
                   /\ lastOp' = [op |-> "generateQuote", request |-> ParsedRequest(body),
                                 status |-> "ok", scan |-> r.scan, quoteId |-> quoteId,
                                 issuedAt |-> reads[2]]
              ELSE /\ reads = <<now, now, now>>
                   /\ quoteStore' = quoteStore
                   /\ now' = now
                   /\ lastOp' = IF getQuoteSchema(body)
                                THEN [op |-> "generateQuote",
                                      request |-> ParsedRequest(body),
                                      status |-> r.status, scan |-> r.scan]
                                ELSE [op |-> "quote", body |-> body,
                                      status |-> r.status, scan |-> r.scan]
    /\ UNCHANGED <<config, chains, delegateVars, sweepVars, routeVars, scanVars, nextCleanup, vaultVars>>

\* POST /donate
PostDonate ==
    /\ now <= MaxIssueIntervals * CleanupIntervalMs + 1
    /\ \E body \in DonateBodies, rpc \in QuoteWorlds, quoteId \in QuoteIds,
          reads \in ClockReads(now) :
          LET r == postDonate(body, rpc, quoteId, reads[1], reads[2])
          IN  IF r.status = "ok"
              THEN /\ quoteStore' = StorePut(quoteStore, quoteId,
                                             [quote |-> r.quote, createdAt |-> reads[3]])
                   /\ now' = reads[3]
                   /\ lastOp' = [op |-> "donate", body |-> body,
                                 status |-> "ok", scan |-> r.scan, quoteId |-> quoteId,
                                 issuedAt |-> reads[2]]
              ELSE /\ reads = <<now, now, now>>
                   /\ quoteStore' = quoteStore
                   /\ now' = now
                   /\ lastOp' = [op |-> "donate", body |-> body,
                                 status |-> r.status, scan |-> r.scan]
    /\ UNCHANGED <<config, chains, delegateVars, sweepVars, routeVars, scanVars, nextCleanup, vaultVars>>

\* GET /quote/:quoteId -> getQuote
GetQuote ==
    /\ \E quoteId \in LookupIds :
          LET r == getQuote(quoteStore, quoteId, now)
          IN  /\ quoteStore' = r.store
              /\ lastOp' = [op |-> "getQuote", quoteId |-> quoteId, result |-> r.result]
    /\ UNCHANGED <<config, chains, delegateVars, sweepVars, routeVars, scanVars, now, nextCleanup, vaultVars>>

\* the setInterval callback fires once its interval has elapsed
Cleanup ==
    /\ now >= nextCleanup
    /\ quoteStore' = cleanupExpired(quoteStore, now)
    /\ nextCleanup' = now + CleanupIntervalMs
    /\ lastOp' = [op |-> "cleanup"]
    /\ UNCHANGED <<config, chains, delegateVars, sweepVars, routeVars, scanVars, now, vaultVars>>

NextQuote == Tick \/ GenerateQuote \/ PostDonate \/ GetQuote \/ Cleanup

SpecQuote == InitQuote /\ [][NextQuote]_vars

-----------------------------------------------------------------------------
(* SolverVault and the settlement service as a state machine *)

Callers == {"0xOwner", "0xSolver", "0xStranger"}
FeeChoices == {2000, 2001}

\* the environments the settlement service runs in: the vault on Base is
\* registered, and the solver key is configured or not
VaultUniverses ==
    {[config |-> [defaultFeeBps |-> 1000, defiLlamaTreasury |-> Some("0xTreasury"),
                  solverPrivateKey |-> Some("0xSolver")],
      chains |-> DeployedChains],
     [config |-> [defaultFeeBps |-> 1000, defiLlamaTreasury |-> Some("0xTreasury"),
                  solverPrivateKey |-> None],
      chains |-> DeployedChains]}

\* the calls made to the vault: every caller with well-formed arguments, and
\* the owner with each malformed argument
SetOperatorCalls ==
    [sender : {"0xOwner"}, authorized : BOOLEAN]
    \cup [sender : {"0xStranger"}, authorized : {TRUE}]
SetFeeCalls ==
    [sender : {"0xOwner"}, newFeeBps : FeeChoices]
    \cup [sender : {"0xSolver", "0xStranger"}, newFeeBps : {500}]
SettleCalls ==
    [sender : Callers, user : {"0xAlice"}, token : {USDC},
     amount : {105}, isDonation : BOOLEAN]
    \cup [sender : {"0xOwner"}, user : {"0xAlice"}, token : {USDC},
           amount : {0}, isDonation : {FALSE}]
    \cup [sender : {"0xOwner"}, user : {ZERO_ADDRESS}, token : {USDC},
           amount : {105}, isDonation : {FALSE}]
    \cup [sender : {"0xOwner"}, user : {"0xAlice"}, token : {ZERO_ADDRESS},
           amount : {105}, isDonation : {FALSE}]
SettleNativeCalls ==
    [sender : Callers, user : {"0xAlice"}, amount : {105}, isDonation : BOOLEAN]
    \cup [sender : {"0xOwner"}, user : {"0xAlice"}, amount : {0}, isDonation : {FALSE}]
    \cup [sender : {"0xOwner"}, user : {ZERO_ADDRESS}, amount : {105},
           isDonation : {FALSE}]
FeeQueries ==
    [chainId : {8453}, amount : GrossAmounts, isDonation : BOOLEAN]
    \cup [chainId : {1}, amount : {100}, isDonation : {FALSE}]

\* the fields of a quote that settlement reads
SettleQuotes ==
    {[destinationChainId |-> 8453, recipient |-> "0xAlice", isDonation |-> FALSE],
     [destinationChainId |-> 8453, recipient |-> "0xTreasury", isDonation |-> TRUE],
     [destinationChainId |-> 1, recipient |-> "0xAlice", isDonation |-> FALSE]}

\* the settlements requested: every quote with collected USDC, and the
\* first quote with collected native currency and with nothing collected
SettleFundsCalls ==
    [quote : SettleQuotes, totalCollected : {105}, collectedToken : {USDC}]
    \cup [quote : {[destinationChainId |-> 8453, recipient |-> "0xAlice",
                     isDonation |-> FALSE]},
           totalCollected : TxAmounts, collectedToken : Tokens]

\* the payments asked of directTransfer: USDC and native currency to Alice,
\* and a payment on a chain that is not registered
DirectTransferCalls ==
    [chainId : {8453}, recipient : {"0xAlice"}, token : Tokens, amount : {105}]
    \cup [chainId : {99999}, recipient : {"0xAlice"}, token : {USDC},
           amount : {105}]

NoTx == [op |-> "none"]
NoReport == [op |-> "none"]

\* what a vault call leaves in lastTx: its arguments, its status and, when
\* it succeeded, the values of its SettlementSent event
TxRecord(op, sender, amount, isDonation, r) ==
    IF r.status = "ok"
    THEN [op |-> op, sender |-> sender, amount |-> amount, isDonation |-> isDonation,
          status |-> "ok", recipient |-> r.recipient,
          feeAmount |-> r.feeAmount, userAmount |-> r.userAmount]
    ELSE [op |-> op, sender |-> sender, amount |-> amount, isDonation |-> isDonation,
          status |-> r.status]

\* a settlement's record: the call record with the `user` and `token`
\* arguments of settle (token is address(0) for settleNative)
SettlementRecord(op, sender, user, token, amount, isDonation, r) ==
    TxRecord(op, sender, amount, isDonation, r)
        @@ [user |-> user, token |-> token, reported |-> None]

\* what a mined transaction of the solver account leaves in lastTx: the call
\* and its outcome, and in `reported` what its sender had returned for it
MinedRecord(tx, r, report) ==
    [reported |-> Some(report)]
    @@ (IF tx.kind \in {"settle", "settleNative"}
        THEN SettlementRecord(tx.kind, tx.sender, tx.user, tx.token, tx.amount,
                              tx.isDonation, r)
        ELSE [op |-> tx.kind, sender |-> tx.sender, recipient |-> tx.user,
              token |-> tx.token, amount |-> tx.amount, value |-> tx.value,
              status |-> r.status])

InitVault ==
    /\ \E u \in VaultUniverses : config = u.config /\ chains = u.chains
    /\ ScanIdle
    /\ QuoteIdle
    /\ VaultIdle
    /\ SweepIdle
    /\ DelegateIdle
    /\ RouteIdle

\* collected funds reach the vault
Deposit ==
    /\ \E token \in Tokens, amount \in TxAmounts \ {0} :
          /\ ledger[token]["0xSolver"] >= amount
          /\ ledger' = Transfer(ledger, token, "0xSolver", VaultAddress, amount)
          /\ lastTx' = [op |-> "deposit", token |-> token, amount |-> amount]
    /\ lastReport' = NoReport
    /\ UNCHANGED <<mempool, config, chains, delegateVars, sweepVars, routeVars, scanVars, quoteVars, vault>>

SetOperator ==
    /\ \E c \in SetOperatorCalls :
          LET r == setOperator(vault, ledger, c.sender, "0xSolver", c.authorized)
          IN  /\ vault' = r.vault
              /\ ledger' = r.ledger
              /\ lastTx' = [op |-> "setOperator", sender |-> c.sender,
                            authorized |-> c.authorized, status |-> r.status]
    /\ lastReport' = NoReport
    /\ UNCHANGED <<mempool, config, chains, delegateVars, sweepVars, routeVars, scanVars, quoteVars>>

SetFee ==
    /\ \E c \in SetFeeCalls :
          LET r == setFee(vault, ledger, c.sender, c.newFeeBps)
          IN  /\ vault' = r.vault
              /\ ledger' = r.ledger
              /\ lastTx' = [op |-> "setFee", sender |-> c.sender,
                            newFeeBps |-> c.newFeeBps, status |-> r.status]
    /\ lastReport' = NoReport
    /\ UNCHANGED <<mempool, config, chains, delegateVars, sweepVars, routeVars, scanVars, quoteVars>>

Settle ==
    /\ \E c \in SettleCalls :
          LET r == settle(vault, ledger, c.sender, c.user, c.token, c.amount, c.isDonation)
          IN  /\ vault' = r.vault
              /\ ledger' = r.ledger
              /\ lastTx' = SettlementRecord("settle", c.sender, c.user, c.token,
                                             c.amount, c.isDonation, r)
    /\ lastReport' = NoReport
    /\ UNCHANGED <<mempool, config, chains, delegateVars, sweepVars, routeVars, scanVars, quoteVars>>

SettleNative ==
    /\ \E c \in SettleNativeCalls :
          LET r == settleNative(vault, ledger, c.sender, 0, c.user, c.amount, c.isDonation)
          IN  /\ vault' = r.vault
              /\ ledger' = r.ledger
              /\ lastTx' = SettlementRecord("settleNative", c.sender, c.user,
                                             ZERO_ADDRESS, c.amount, c.isDonation, r)
    /\ lastReport' = NoReport
    /\ UNCHANGED <<mempool, config, chains, delegateVars, sweepVars, routeVars, scanVars, quoteVars>>

CalculateFee ==
    /\ \E grossAmount \in GrossAmounts, isDonation \in BOOLEAN :
          LET r == calculateFee(vault, grossAmount, isDonation)
          IN  lastTx' = [op |-> "calculateFee", amount |-> grossAmount,
                         isDonation |-> isDonation, status |-> "ok",
                         netAmount |-> r[1], feeAmount |-> r[2]]
    /\ lastReport' = NoReport
    /\ UNCHANGED <<mempool, config, chains, delegateVars, sweepVars, routeVars, scanVars, quoteVars, vault, ledger>>

SettleFunds ==
    /\ Len(mempool) < Cardinality(Overlapping)
    /\ \E c \in SettleFundsCalls, rpc \in RpcOutcomes :
          LET r == settleFunds(c.quote, c.totalCollected, c.collectedToken,
                               vault, ledger, rpc)
          IN  /\ mempool' = IF IsSome(r.submitted)
                             THEN Append(mempool, [tx |-> Get(r.submitted),
                                                   report |-> r.report])
                             ELSE mempool
              /\ lastReport' = [op |-> "settleFunds", quote |-> c.quote,
                                totalCollected |-> c.totalCollected,
                                collectedToken |-> c.collectedToken,
                                rpc |-> rpc, result |-> r.report]
    /\ lastTx' = NoTx
    /\ UNCHANGED <<config, chains, delegateVars, sweepVars, routeVars, scanVars, quoteVars, vault, ledger>>

\* directTransfer, called with the arguments in routeCall
DirectTransfer ==
    /\ routeCall.fn = "directTransfer"
    /\ Len(mempool) < Cardinality(Overlapping)
    /\ \E rpc \in RpcOutcomes :
          LET c == routeCall
              r == directTransfer(c.chainId, c.recipient, c.token, c.amount,
                                  vault, ledger, rpc)
          IN  /\ mempool' = IF IsSome(r.submitted)
                             THEN Append(mempool, [tx |-> Get(r.submitted),
                                                   report |-> r.report])
                             ELSE mempool
              /\ lastReport' = [op |-> "directTransfer", chainId |-> c.chainId,
                                recipient |-> c.recipient, token |-> c.token,
                                amount |-> c.amount, rpc |-> rpc, result |-> r.report]
    /\ lastTx' = NoTx
    /\ UNCHANGED <<config, chains, delegateVars, sweepVars, routeVars, scanVars, quoteVars, vault, ledger>>

\* the chain mines the solver account's oldest pending transaction
MineTransaction ==
    /\ mempool # <<>>
    /\ LET tx == Head(mempool).tx
           r == execute(tx, vault, ledger)
       IN  /\ vault' = r.vault
           /\ ledger' = r.ledger
           /\ lastTx' = MinedRecord(tx, r, Head(mempool).report)
    /\ mempool' = Tail(mempool)
    /\ lastReport' = NoReport
    /\ UNCHANGED <<config, chains, delegateVars, sweepVars, routeVars, scanVars, quoteVars>>

GetVaultFeeCalculation ==
    /\ \E q \in FeeQueries, readOk \in BOOLEAN :
          lastReport' = [op |-> "getVaultFeeCalculation", chainId |-> q.chainId,
                         amount |-> q.amount, isDonation |-> q.isDonation,
                         readOk |-> readOk,
                         result |-> getVaultFeeCalculation(q.chainId, q.amount,
                                                           q.isDonation, vault, readOk)]
    /\ lastTx' = NoTx
    /\ UNCHANGED <<mempool, config, chains, delegateVars, sweepVars, routeVars, scanVars, quoteVars, vault, ledger>>

NextVault ==
    \/ Deposit \/ SetOperator \/ SetFee \/ Settle \/ SettleNative
    \/ CalculateFee \/ SettleFunds \/ MineTransaction
    \/ GetVaultFeeCalculation

SpecVault == InitVault /\ [][NextVault]_vars

-----------------------------------------------------------------------------
(* SolverVault called directly: every external function of the contract *)

\* The callers of the remaining functions.  "0xSolver" is neither owner nor
\* operator until setOperator flags it or transferOwnership names it, and
\* "0xOwner", the deployer, stays flagged as operator after it has handed
\* over ownership.
ContractCallers == {"0xOwner", "0xSolver"}

\* the calls made to them: every caller with well-formed arguments, and the
\* deployer with each malformed argument or failing counterpart
AddressCalls(newAddress) ==
    [sender : ContractCallers, address : {newAddress}]
    \cup [sender : {"0xOwner"}, address : {ZERO_ADDRESS}]
SwapOutcomes == {[kind |-> "fail"], [kind |-> "swap", out |-> 100],
                 [kind |-> "swap", out |-> 90]}
SwapDustCalls ==
    [sender : ContractCallers, tokenIn : {USDC}, amountIn : {105},
     swapData : {[kind |-> "swap", out |-> 100]}]
    \cup [sender : {"0xOwner"}, tokenIn : {USDC}, amountIn : {105},
           swapData : SwapOutcomes]
    \cup [sender : {"0xOwner"}, tokenIn : {ZERO_ADDRESS}, amountIn : {105},
           swapData : {[kind |-> "fail"]}]
    \cup [sender : {"0xOwner"}, tokenIn : {USDC}, amountIn : {0},
           swapData : {[kind |-> "fail"]}]
BridgeOutcomes == {[kind |-> "fail"], [kind |-> "bridge"]}
BridgeCalls ==
    [sender : ContractCallers, user : {"0xAlice"}, token : {USDC}, amount : {105},
     bridgeData : {[kind |-> "bridge"]}, isDonation : {FALSE}]
    \cup [sender : {"0xOwner"}, user : {"0xAlice"}, token : {USDC}, amount : {105},
           bridgeData : BridgeOutcomes, isDonation : BOOLEAN]
    \cup [sender : {"0xOwner"}, user : {ZERO_ADDRESS, "0xAlice"}, token : {ZERO_ADDRESS},
           amount : {105}, bridgeData : {[kind |-> "bridge"]}, isDonation : {FALSE}]
    \cup [sender : {"0xOwner"}, user : {"0xAlice"}, token : {USDC},
           amount : {0}, bridgeData : {[kind |-> "bridge"]}, isDonation : {FALSE}]
WithdrawFeesCalls ==
    [sender : ContractCallers, token : Tokens, to : {"0xOwner"}]
    \cup [sender : {"0xOwner"}, token : {USDC}, to : {ZERO_ADDRESS}]
\* emergencyWithdraw is called for everything the vault holds of the token
EmergencyWithdrawCalls ==
    [sender : ContractCallers, token : Tokens, to : {"0xOwner"}]
    \cup [sender : {"0xOwner"}, token : {USDC}, to : {ZERO_ADDRESS}]

\* what a call leaves in lastTx: the function, the caller, the arguments and
\* the outcome
CallRecord(op, c, r) == [op |-> op, sender |-> c.sender, args |-> c, status |-> r.status]

\* what the accounts hold before the first call: the solver has collected
\* one of the tokens, and the swap router has DAI to pay out
ContractLedgers ==
    {[t \in VaultTokens |-> [a \in Accounts |->
         IF t = collected /\ a = "0xSolver" THEN LargestTxAmount
         ELSE IF t = DAI /\ a = SwapRouter THEN 100
         ELSE 0]] : collected \in Tokens}

InitContract ==
    /\ config = DefaultConfig
    /\ chains = DeployedChains
    /\ ScanIdle
    /\ QuoteIdle
    /\ vault = Constructed("0xOwner", "0xTreasury")
    /\ ledger \in ContractLedgers
    /\ lastTx = NoTx
    /\ lastReport = NoReport
    /\ mempool = <<>>
    /\ SweepIdle
    /\ DelegateIdle
    /\ RouteIdle

TransferOwnership ==
    /\ \E c \in AddressCalls("0xSolver") :
          LET r == transferOwnership(vault, ledger, c.sender, c.address)
          IN  /\ vault' = r.vault
              /\ ledger' = r.ledger
              /\ lastTx' = CallRecord("transferOwnership", c, r)
    /\ lastReport' = NoReport
    /\ UNCHANGED <<mempool, config, chains, delegateVars, sweepVars, routeVars, scanVars, quoteVars>>

SetSwapRouter ==
    /\ \E c \in AddressCalls("0xRouter2") :
          LET r == setSwapRouter(vault, ledger, c.sender, c.address)
          IN  /\ vault' = r.vault
              /\ ledger' = r.ledger
              /\ lastTx' = CallRecord("setSwapRouter", c, r)
    /\ lastReport' = NoReport
    /\ UNCHANGED <<mempool, config, chains, delegateVars, sweepVars, routeVars, scanVars, quoteVars>>

SetBridgeRouter ==
    /\ \E c \in AddressCalls("0xRouter2") :
          LET r == setBridgeRouter(vault, ledger, c.sender, c.address)
          IN  /\ vault' = r.vault
              /\ ledger' = r.ledger
              /\ lastTx' = CallRecord("setBridgeRouter", c, r)
    /\ lastReport' = NoReport
    /\ UNCHANGED <<mempool, config, chains, delegateVars, sweepVars, routeVars, scanVars, quoteVars>>

SetDefiLlamaTreasury ==
    /\ \E c \in AddressCalls("0xAlice") :
          LET r == setDefiLlamaTreasury(vault, ledger, c.sender, c.address)
          IN  /\ vault' = r.vault
              /\ ledger' = r.ledger
              /\ lastTx' = CallRecord("setDefiLlamaTreasury", c, r)
    /\ lastReport' = NoReport
    /\ UNCHANGED <<mempool, config, chains, delegateVars, sweepVars, routeVars, scanVars, quoteVars>>

RecordDustReceived ==
    /\ \E c \in [sender : ContractCallers] :
          LET r == recordDustReceived(vault, ledger, c.sender, "0xAlice", USDC, 105)
          IN  /\ vault' = r.vault
              /\ ledger' = r.ledger
              /\ lastTx' = CallRecord("recordDustReceived", c, r)
    /\ lastReport' = NoReport
    /\ UNCHANGED <<mempool, config, chains, delegateVars, sweepVars, routeVars, scanVars, quoteVars>>

SwapDust ==
    /\ \E c \in SwapDustCalls :
          LET r == swapDust(vault, ledger, c.sender, c.tokenIn, DAI, c.amountIn, 100,
                            c.swapData)
          IN  /\ vault' = r.vault
              /\ ledger' = r.ledger
              /\ lastTx' = CallRecord("swapDust", c, r)
    /\ lastReport' = NoReport
    /\ UNCHANGED <<mempool, config, chains, delegateVars, sweepVars, routeVars, scanVars, quoteVars>>

BridgeToUser ==
    /\ \E c \in BridgeCalls :
          LET r == bridgeToUser(vault, ledger, c.sender, c.user, c.token, c.amount,
                                8453, c.bridgeData, c.isDonation)
          IN  /\ vault' = r.vault
              /\ ledger' = r.ledger
              /\ lastTx' = CallRecord("bridgeToUser", c, r)
    /\ lastReport' = NoReport
    /\ UNCHANGED <<mempool, config, chains, delegateVars, sweepVars, routeVars, scanVars, quoteVars>>

WithdrawFees ==
    /\ \E c \in WithdrawFeesCalls :
          LET r == withdrawFees(vault, ledger, c.sender, c.token, c.to)
          IN  /\ vault' = r.vault
              /\ ledger' = r.ledger
              /\ lastTx' = CallRecord("withdrawFees", c, r)
    /\ lastReport' = NoReport
    /\ UNCHANGED <<mempool, config, chains, delegateVars, sweepVars, routeVars, scanVars, quoteVars>>

EmergencyWithdraw ==
    /\ \E c \in EmergencyWithdrawCalls :
          LET r == emergencyWithdraw(vault, ledger, c.sender, c.token, c.to,
                                     ledger[c.token][VaultAddress])
          IN  /\ vault' = r.vault
              /\ ledger' = r.ledger
              /\ lastTx' = CallRecord("emergencyWithdraw", c, r)
    /\ lastReport' = NoReport
    /\ UNCHANGED <<mempool, config, chains, delegateVars, sweepVars, routeVars, scanVars, quoteVars>>

NextContract ==
    \/ Deposit \/ SetOperator \/ SetFee \/ Settle \/ SettleNative
    \/ TransferOwnership \/ SetSwapRouter \/ SetBridgeRouter \/ SetDefiLlamaTreasury
    \/ RecordDustReceived \/ SwapDust \/ BridgeToUser \/ WithdrawFees \/ EmergencyWithdraw

SpecContract == InitContract /\ [][NextContract]_vars

-----------------------------------------------------------------------------
(* LlamaSweepDelegate called at a delegated EOA *)

\* the batches passed to sweep: well-formed ones, and one for each way an
\* entry after the first can be refused
SweepBatches ==
    {[tokens |-> <<>>, amounts |-> <<>>],
     [tokens |-> <<USDC>>, amounts |-> <<1>>],
     [tokens |-> <<USDC, DAI>>, amounts |-> <<1, 1>>],
     [tokens |-> <<USDC, ZERO_ADDRESS>>, amounts |-> <<1, 1>>],
     [tokens |-> <<USDC, DAI>>, amounts |-> <<1, 0>>],
     [tokens |-> <<USDC, DAI>>, amounts |-> <<1, 2>>],
     [tokens |-> <<USDC, DAI>>, amounts |-> <<1>>]}
NativeAmounts == {0, 1, 3}

SweepRecord(op, sender, deadline, args, r) ==
    [op |-> op, sender |-> sender, deadline |-> deadline, args |-> args,
     timestamp |-> blockTimestamp, status |-> r.status]

InitDelegate ==
    /\ config = DefaultConfig
    /\ chains = DeployedChains
    /\ ScanIdle
    /\ QuoteIdle
    /\ VaultIdle
    /\ SweepIdle
    /\ DelegateIdle
    /\ RouteIdle

\* a block with a later timestamp is mined
Mine ==
    /\ \E t \in BlockTimes :
          /\ t > blockTimestamp
          /\ \A u \in BlockTimes : u > blockTimestamp => t <= u
          /\ blockTimestamp' = t
    /\ lastSweep' = NoSweep
    /\ UNCHANGED <<config, chains, scanVars, quoteVars, vaultVars, sweepVars, routeVars,
                   delegate, wallet>>

Sweep ==
    /\ \E sender \in DelegateAccounts, b \in SweepBatches, deadline \in Deadlines :
          LET r == sweep(delegate, wallet, "0xAlice", sender, blockTimestamp,
                         b.tokens, b.amounts, deadline)
          IN  /\ wallet' = r.wallet
              /\ lastSweep' = SweepRecord("sweep", sender, deadline, b, r)
    /\ UNCHANGED <<config, chains, scanVars, quoteVars, vaultVars, sweepVars, routeVars,
                   delegate, blockTimestamp>>

SweepNative ==
    /\ \E sender \in DelegateAccounts, amount \in NativeAmounts, deadline \in Deadlines :
          LET r == sweepNative(delegate, wallet, "0xAlice", sender, blockTimestamp,
                               amount, deadline)
          IN  /\ wallet' = r.wallet
              /\ lastSweep' = SweepRecord("sweepNative", sender, deadline,
                                           [amount |-> amount], r)
    /\ UNCHANGED <<config, chains, scanVars, quoteVars, vaultVars, sweepVars, routeVars,
                   delegate, blockTimestamp>>

SweepAll ==
    /\ \E sender \in DelegateAccounts, token \in SweepTokens, deadline \in Deadlines :
          LET r == sweepAll(delegate, wallet, "0xAlice", sender, blockTimestamp,
                            token, deadline)
          IN  /\ wallet' = r.wallet
              /\ lastSweep' = SweepRecord("sweepAll", sender, deadline,
                                           [token |-> token], r)
    /\ UNCHANGED <<config, chains, scanVars, quoteVars, vaultVars, sweepVars, routeVars,
                   delegate, blockTimestamp>>

SweepAllNative ==
    /\ \E sender \in DelegateAccounts, deadline \in Deadlines :
          LET r == sweepAllNative(delegate, wallet, "0xAlice", sender, blockTimestamp,
                                  deadline)
          IN  /\ wallet' = r.wallet
              /\ lastSweep' = SweepRecord("sweepAllNative", sender, deadline, <<>>, r)
    /\ UNCHANGED <<config, chains, scanVars, quoteVars, vaultVars, sweepVars, routeVars,
                   delegate, blockTimestamp>>

\* native currency is sent to the delegated account
Receive ==
    /\ \E sender \in {"0xStranger"}, value \in {1} :
          LET r == receive(wallet, "0xAlice", sender, value)
          IN  /\ r.status = "ok"
              /\ wallet' = r.wallet
              /\ lastSweep' = [op |-> "receive", sender |-> sender, value |-> value,
                                timestamp |-> blockTimestamp, status |-> r.status]
    /\ UNCHANGED <<config, chains, scanVars, quoteVars, vaultVars, sweepVars, routeVars,
                   delegate, blockTimestamp>>

NextDelegate == Mine \/ Sweep \/ SweepNative \/ SweepAll \/ SweepAllNative \/ Receive

SpecDelegate == InitDelegate /\ [][NextDelegate]_vars

-----------------------------------------------------------------------------
(* The sweep executor as a state machine: executeSweeps invocations that *)
(* may overlap, each advancing from one await to the next                *)

\* a registry in which Ethereum and Base have a delegate and Gnosis has none
DelegatedChains ==
    [c \in SupportedChainSet |->
        IF c = 100 THEN NoContracts
        ELSE [delegateAddress |-> Some("0xDelegate"), vaultAddress |-> Some("0xVault")]]

Dust(chainId, address) ==
    [chainId |-> chainId, address |-> address, amount |-> 1, valueUsd |-> 600]

\* the quotes handed to executeSweeps, issued at time 0 (deadline 3600 s):
\* dust on three chains, one of them without a delegate; dust on the two
\* chains with a delegate; dust only on the chain without one
SweepQuotes ==
    {[quoteId |-> "5f1d",
      dustTokens |-> <<Dust(1, "0xa0b8"), Dust(8453, ZERO_ADDRESS),
                       Dust(8453, USDC), Dust(100, ZERO_ADDRESS)>>,
      authorizationData |-> [deadline |-> sweepDeadlineSeconds]],
     [quoteId |-> "c0de",
      dustTokens |-> <<Dust(8453, USDC), Dust(1, ZERO_ADDRESS)>>,
      authorizationData |-> [deadline |-> sweepDeadlineSeconds]],
     [quoteId |-> "d057",
      dustTokens |-> <<Dust(100, ZERO_ADDRESS)>>,
      authorizationData |-> [deadline |-> sweepDeadlineSeconds]]}

\* the signature maps handed to executeSweeps: empty, or one per chain
SignatureMaps ==
    {[c \in {} |-> "0xsig"], [c \in SupportedChainSet |-> "0xsig"]}

\* the times at which the executor runs: before and after the deadline
SweepTimes == {0, (sweepDeadlineSeconds + 1) * 1000}

SweepConfigs ==
    {[defaultFeeBps |-> 1000, defiLlamaTreasury |-> None,
      solverPrivateKey |-> Some("0xSolver")],
     DefaultConfig}

InitSweep ==
    /\ config \in SweepConfigs
    /\ chains = DelegatedChains
    /\ ScanIdle
    /\ now \in SweepTimes
    /\ nextCleanup = CleanupIntervalMs
    /\ quoteStore = [id \in {} |-> None]
    /\ lastOp = [op |-> "none"]
    /\ VaultIdle
    /\ SweepIdle
    /\ DelegateIdle
    /\ RouteIdle

\* executeSweeps is called and runs to its first await
ExecuteSweeps ==
    /\ \E e \in Invocations, quote \in SweepQuotes, signatures \in SignatureMaps :
          /\ sweeps[e].pc = "idle"
          /\ sweeps' = [sweeps EXCEPT ![e] = executeSweeps(quote, signatures)]
    /\ UNCHANGED <<config, chains, delegateVars, scanVars, quoteVars, vaultVars, routeVars>>

\* a pending sendTransaction settles and the invocation runs to its next await
SendTransactionReturns ==
    /\ \E e \in Invocations, ok \in BOOLEAN :
          /\ sweeps[e].pc = "awaiting"
          /\ \E fn \in sweeps[e].inflight :
                sweeps' = [sweeps EXCEPT ![e] = SendTransactionReturned(sweeps[e], fn, ok)]
    /\ UNCHANGED <<config, chains, delegateVars, scanVars, quoteVars, vaultVars, routeVars>>

NextSweep == ExecuteSweeps \/ SendTransactionReturns

SpecSweep == InitSweep /\ [][NextSweep]_vars

-----------------------------------------------------------------------------
(* Swap and bridge quotes: one call, with what the providers answer *)

MaxRoutes == 2     \* candidate routes in a Socket answer

RouteAmounts == {90, 100}

RECURSIVE SeqsUpTo(_, _)
SeqsUpTo(S, n) ==
    IF n = 0 THEN {<<>>}
    ELSE LET shorter == SeqsUpTo(S, n - 1)
         IN  shorter \cup {Append(q, x) : q \in shorter, x \in S}

\* what a single-quote provider (LlamaSwap, 1inch, LI.FI) answers
QuoteAnswers ==
    {[kind |-> "throw"], [kind |-> "empty"]}
    \cup {[kind |-> "quote", amountOut |-> a] : a \in RouteAmounts \cup {0}}

\* what Socket answers: an error, no result, or candidate routes together
\* with the outcome of build-tx
SocketAnswers ==
    {[kind |-> "throw"], [kind |-> "empty"]}
    \cup {[kind |-> "routes", routes |-> r, build |-> b] :
             r \in SeqsUpTo({[toAmount |-> a] : a \in RouteAmounts}, MaxRoutes),
             b \in {"ok", "empty", "throw"}}

RouteCalls ==
    {[fn |-> "getSwapQuote", chainId |-> c, world |-> [primary |-> p, fallback |-> f]] :
        c \in {8453, 100}, p \in QuoteAnswers, f \in QuoteAnswers}
    \cup
    {[fn |-> "getBridgeQuote", world |-> [primary |-> p, fallback |-> f]] :
        p \in QuoteAnswers, f \in SocketAnswers}

\* the rest of a quote, which the quote functions hand on as the provider
\* gave it: the transaction to send and, for a bridge, the source chain
\* asked for and the estimated duration in seconds
BuiltSwaps == [to : {SwapRouter}, value : {0, 105}]
BuiltBridges == [to : {BridgeRouter}, value : {0, 105}, fromChainId : {8453, 99999},
                 estimatedTime : {60}]
ExecuteChains == {8453, 99999}

KeyedConfig == [DefaultConfig EXCEPT !.solverPrivateKey = Some("0xSolver")]

\* a provider's answers: a quote for 100, a quote for 90, nothing
Quoting(a) == [primary |-> [kind |-> "quote", amountOut |-> a],
               fallback |-> [kind |-> "empty"]]
NotQuoting == [primary |-> [kind |-> "throw"], fallback |-> [kind |-> "empty"]]

\* the batches swapped to USDC: a token that is swapped, the output token
\* itself followed by a token that is swapped, a token without a quote, and
\* DAI written in lower case swapped to DAI
BatchCalls ==
    {[fn |-> "batchSwap", chainId |-> 8453, outputToken |-> USDC,
      tokens |-> <<[address |-> DAI, amount |-> 100]>>,
      worlds |-> <<Quoting(100)>>],
     [fn |-> "batchSwap", chainId |-> 8453, outputToken |-> USDC,
      tokens |-> <<[address |-> USDC, amount |-> 105],
                   [address |-> ZERO_ADDRESS, amount |-> 105]>>,
      worlds |-> <<NotQuoting, Quoting(90)>>],
     [fn |-> "batchSwap", chainId |-> 8453, outputToken |-> USDC,
      tokens |-> <<[address |-> DAI, amount |-> 100],
                   [address |-> ZERO_ADDRESS, amount |-> 105]>>,
      worlds |-> <<NotQuoting, Quoting(0)>>],
     [fn |-> "batchSwap", chainId |-> 8453, outputToken |-> DAI,
      tokens |-> <<[address |-> "0x6b17", amount |-> 100]>>,
      worlds |-> <<Quoting(100)>>],
     [fn |-> "batchSwap", chainId |-> 8453, outputToken |-> USDC,
      tokens |-> <<>>, worlds |-> <<>>]}

\* the calls made with the solver key configured
KeyedCalls ==
    {c \in RouteCalls :
        /\ c.world.primary.kind \in {"quote", "empty"}
        /\ c.world.primary.kind = "quote" => c.world.primary.amountOut = 100
        /\ c.world.fallback = [kind |-> "empty"]
        /\ c.fn = "getSwapQuote" => c.chainId = 8453}
    \cup BatchCalls
    \cup {[fn |-> "directTransfer"] @@ c : c \in DirectTransferCalls}

InitRoute ==
    /\ \/ config = DefaultConfig /\ routeCall \in RouteCalls \cup BatchCalls
       \/ config = KeyedConfig /\ routeCall \in KeyedCalls
    /\ chains = ShippedChains
    /\ ScanIdle
    /\ QuoteIdle
    /\ VaultIdle
    /\ SweepIdle
    /\ DelegateIdle
    /\ routeReturn = [status |-> "pending"]

GetSwapQuote ==
    /\ routeCall.fn = "getSwapQuote"
    /\ routeReturn.status = "pending"
    /\ routeReturn' = getSwapQuote(routeCall.chainId, routeCall.world)
    /\ UNCHANGED <<config, chains, delegateVars, scanVars, quoteVars, vaultVars, sweepVars, routeCall>>

GetBridgeQuote ==
    /\ routeCall.fn = "getBridgeQuote"
    /\ routeReturn.status = "pending"
    /\ routeReturn' = getBridgeQuote(routeCall.world)
    /\ UNCHANGED <<config, chains, delegateVars, scanVars, quoteVars, vaultVars, sweepVars, routeCall>>

\* executeSwap with a quote that getSwapQuote returned
ExecuteSwap ==
    /\ routeCall.fn = "getSwapQuote"
    /\ routeReturn.status = "resolved"
    /\ IsSome(routeReturn.value)
    /\ Len(mempool) < Cardinality(Overlapping)
    /\ \E chainId \in ExecuteChains, built \in BuiltSwaps, rpc \in RpcOutcomes :
          LET quote == Get(routeReturn.value) @@ built
              r == executeSwap(chainId, quote, vault, ledger, rpc)
          IN  /\ mempool' = IF IsSome(r.submitted)
                             THEN Append(mempool, [tx |-> Get(r.submitted),
                                                   report |-> r.report])
                             ELSE mempool
              /\ lastReport' = [op |-> "executeSwap", chainId |-> chainId,
                                quote |-> quote, rpc |-> rpc, result |-> r.report]
    /\ lastTx' = NoTx
    /\ UNCHANGED <<config, chains, delegateVars, scanVars, quoteVars, sweepVars, routeVars, vault, ledger>>

\* batchSwap, one token of the list at a time: what it has sent for one
\* token can be mined before it asks for the next token's quote
BatchSwap ==
    /\ routeCall.fn = "batchSwap"
    /\ routeReturn.status \in {"pending", "running"}
    /\ Len(mempool) < Cardinality(Overlapping)
    /\ LET i == IF routeReturn.status = "pending" THEN 1 ELSE routeReturn.next
           acc == IF routeReturn.status = "pending"
                  THEN [totalOutput |-> 0, results |-> <<>>] ELSE routeReturn.value
       IN  IF i > Len(routeCall.tokens)
           THEN /\ routeReturn' = [status |-> "returned", value |-> acc]
                /\ lastReport' = [op |-> "batchSwap", result |-> None]
                /\ mempool' = mempool
           ELSE \E built \in BuiltSwaps, rpc \in RpcOutcomes :
                  LET r == batchSwapStep(routeCall.chainId, routeCall.tokens[i],
                                         routeCall.outputToken, routeCall.worlds[i],
                                         built, acc, vault, ledger, rpc)
                  IN  /\ routeReturn' = [status |-> "running", next |-> i + 1,
                                         value |-> r.acc]
                      /\ lastReport' = [op |-> "batchSwap", result |-> r.report]
                      /\ mempool' = IF IsSome(r.submitted)
                                     THEN Append(mempool, [tx |-> Get(r.submitted),
                                                           report |-> Get(r.report)])
                                     ELSE mempool
    /\ lastTx' = NoTx
    /\ UNCHANGED <<config, chains, delegateVars, scanVars, quoteVars, sweepVars, routeCall, vault, ledger>>

\* executeBridge with a quote that getBridgeQuote returned
ExecuteBridge ==
    /\ routeCall.fn = "getBridgeQuote"
    /\ routeReturn.status = "resolved"
    /\ IsSome(routeReturn.value)
    /\ Len(mempool) < Cardinality(Overlapping)
    /\ \E built \in BuiltBridges, rpc \in RpcOutcomes :
          LET quote == Get(routeReturn.value) @@ built
              r == executeBridge(quote, now, vault, ledger, rpc)
          IN  /\ mempool' = IF IsSome(r.submitted)
                             THEN Append(mempool, [tx |-> Get(r.submitted),
                                                   report |-> r.report])
                             ELSE mempool
              /\ lastReport' = [op |-> "executeBridge", quote |-> quote,
                                rpc |-> rpc, result |-> r.report]
    /\ lastTx' = NoTx
    /\ UNCHANGED <<config, chains, delegateVars, scanVars, quoteVars, sweepVars, routeVars, vault, ledger>>

NextRoute ==
    \/ GetSwapQuote \/ GetBridgeQuote \/ ExecuteSwap \/ BatchSwap \/ ExecuteBridge
    \/ DirectTransfer \/ MineTransaction

SpecRoute == InitRoute /\ [][NextRoute]_vars

-----------------------------------------------------------------------------
(* Properties of the balance scan (specification SpecScan) *)

ScanDone == scanReturn.status # "pending"
ScanBalances == SeqToSet(scanReturn.value.balances)
RequestedMin == IF IsSome(scanCall.options.minValueUsd)
                THEN Get(scanCall.options.minValueUsd) ELSE minDustValueUsd
RequestedMax == IF IsSome(scanCall.options.maxValueUsd)
                THEN Get(scanCall.options.maxValueUsd) ELSE maxDustValueUsd
ActiveChainSet == SeqToSet(ActiveChainIds(scanCall.options))
ChainOutcome(c) == scanChainBalances(c, scanCall.rpc[c])

\* C1 as stated: every balance of a returned DustSummary lies between the
\* configured thresholds minDustValueUsd and maxDustValueUsd, whatever scan
\* options the caller passed.
C1_WithinConfiguredThresholds ==
    scanReturn.status = "resolved" =>
        \A b \in ScanBalances :
            minDustValueUsd <= b.valueUsd /\ b.valueUsd <= maxDustValueUsd

\* C1 amended: every balance of a returned DustSummary lies between the
\* bounds the call ran with: the caller's minValueUsd / maxValueUsd where
\* given, the configured threshold for a bound the caller left out.
C1_WithinRequestedRange ==
    scanReturn.status = "resolved" =>
        \A b \in ScanBalances :
            RequestedMin <= b.valueUsd /\ b.valueUsd <= RequestedMax

\* a scan with caller-supplied bounds returned dust while dropping a balance
\* above the requested maximum
C1_Witness ==
    /\ scanReturn.status = "resolved"
    /\ IsSome(scanCall.options.minValueUsd)
    /\ ScanBalances # {}
    /\ \E c \in ActiveChainSet :
          /\ ChainOutcome(c).status = "fulfilled"
          /\ \E b \in SeqToSet(ChainOutcome(c).value) : b.valueUsd > RequestedMax

\* C2: when the scan tasks of some active chains reject, scanAllBalances
\* still resolves; a rejected chain contributes no balance and every balance
\* of a fulfilled chain whose value lies in the requested range is returned.
C2_ChainFailuresIsolated ==
    ScanDone =>
        /\ scanReturn.status = "resolved"
        /\ \A c \in ActiveChainSet :
              /\ ChainOutcome(c).status = "rejected" =>
                    \A b \in ScanBalances : b.chainId # c
              /\ ChainOutcome(c).status = "fulfilled" =>
                    \A b \in SeqToSet(ChainOutcome(c).value) :
                        (RequestedMin <= b.valueUsd /\ b.valueUsd <= RequestedMax)
                            => b \in ScanBalances

\* a scan in which one chain rejected and another chain's dust was returned
C2_Witness ==
    /\ scanReturn.status = "resolved"
    /\ \E c \in ActiveChainSet : ChainOutcome(c).status = "rejected"
    /\ \E c \in ActiveChainSet :
          /\ ChainOutcome(c).status = "fulfilled"
          /\ \E b \in ScanBalances : b.chainId = c


-----------------------------------------------------------------------------
(* Properties of the quote service (specification SpecQuote) *)

GeneratedOk == lastOp.op = "generateQuote" /\ lastOp.status = "ok"
Returned == lastOp.op = "getQuote" /\ IsSome(lastOp.result)
\* the request handed to generateQuote asked for a donation
DonationAsked == Coalesce(lastOp.request.donateToDefillama, FALSE)

\* C3: a quote expires quoteExpirySeconds after it is issued, and getQuote
\* answers not-found at every time t >= expiresAt, the instant t = expiresAt
\* included: a quote that getQuote returns has not reached its expiresAt.
C3_NotFoundFromExpiry ==
    /\ (lastOp.op \in {"generateQuote", "donate"} /\ lastOp.status = "ok") =>
          quoteStore[lastOp.quoteId].quote.expiresAt
              = lastOp.issuedAt + quoteExpirySeconds * 1000
    /\ Returned => now < Get(lastOp.result).expiresAt

\* C4: the lazy eviction of getQuote and the periodic cleanup classify every
\* stored entry alike: at the current time, and just before, at and just
\* after the entry's expiresAt, the cleanup keeps the entry exactly when
\* getQuote returns it.
C4_SameExpiryTest ==
    \A id \in DOMAIN quoteStore :
        \A t \in {now, quoteStore[id].quote.expiresAt - 1,
                   quoteStore[id].quote.expiresAt,
                   quoteStore[id].quote.expiresAt + 1} :
            (id \in DOMAIN cleanupExpired(quoteStore, t))
                <=> IsSome(getQuote(quoteStore, id, t).result)

\* the cleanup has just run at the very instant a stored quote expires
C4_Witness ==
    /\ lastOp.op = "cleanup"
    /\ \E id \in DOMAIN quoteStore : quoteStore[id].quote.expiresAt = now

\* C5: no two unexpired quotes share a quoteId: generateQuote never stores
\* its quote under an id whose entry is still unexpired.
C5_UniqueUnexpiredIds ==
    [][(lastOp'.op = "generateQuote" /\ lastOp'.status = "ok")
          => ~(/\ lastOp'.quoteId \in DOMAIN quoteStore
               /\ now < quoteStore[lastOp'.quoteId].quote.expiresAt)]_vars

\* C6: a stored quote is never mutated: an id that is in the store before and
\* after a step maps to the same entry, so the only change is removal.
C6_StoredQuoteImmutable ==
    [][\A id \in DOMAIN quoteStore \cap DOMAIN quoteStore' :
          quoteStore'[id] = quoteStore[id]]_vars

\* C7: a quote generated for a donation request while a treasury is
\* configured has isDonation, feePercent 0, feeAmountUsd 0 and the treasury
\* as recipient; any other quote has feePercent = defaultFeeBps / 100,
\* feeAmountUsd = totalInputValueUsd * feePercent / 100 and the user as
\* recipient.
C7_FeeAndRecipientRule ==
    GeneratedOk =>
        LET q == quoteStore[lastOp.quoteId].quote
            r == lastOp.request
        IN  IF DonationAsked /\ IsSome(config.defiLlamaTreasury)
            THEN /\ q.isDonation
                 /\ q.feePercent = 0
                 /\ q.feeAmountUsd = 0
                 /\ q.recipient = Get(config.defiLlamaTreasury)
            ELSE /\ ~q.isDonation
                 /\ q.feePercent * 100 = config.defaultFeeBps
                 /\ q.feeAmountUsd * 100 = q.totalInputValueUsd * q.feePercent
                 /\ q.recipient = r.userAddress

\* a donation quote has just been generated with the treasury configured
C7_Witness ==
    /\ GeneratedOk
    /\ DonationAsked
    /\ IsSome(config.defiLlamaTreasury)
    /\ quoteStore[lastOp.quoteId].quote.totalInputValueUsd > 0



-----------------------------------------------------------------------------
(* Properties of settlement (specification SpecVault) *)

\* fee = floor(gross * bps / 10000), or 0 for a donation, and net = gross - fee
ExactSplit(gross, bps, isDonation, fee, net) ==
    /\ IF isDonation THEN fee = 0
       ELSE /\ fee * 10000 <= gross * bps
            /\ gross * bps < (fee + 1) * 10000
    /\ net = gross - fee
    /\ fee + net = gross

SettledOnChain == lastTx.op \in {"settle", "settleNative"} /\ lastTx.status = "ok"
SettleReported == lastReport.op = "settleFunds" /\ lastReport.result.success
FeeReported == lastReport.op = "getVaultFeeCalculation" /\ IsSome(lastReport.result)

\* C8: every settlement computation splits the gross amount exactly:
\* feeAmount = floor(gross * feeBps / 10000) (0 for a donation) and
\* netAmount = gross - feeAmount, in SolverVault.settle / settleNative, in
\* SolverVault.calculateFee (with the vault's feeBps) and in the off-chain
\* settleFunds (with the configured defaultFeeBps).
C8_FeePlusNetIsGross ==
    /\ SettledOnChain =>
           ExactSplit(lastTx.amount, vault.feeBps, lastTx.isDonation,
                      lastTx.feeAmount, lastTx.userAmount)
    /\ lastTx.op = "calculateFee" =>
           ExactSplit(lastTx.amount, vault.feeBps, lastTx.isDonation,
                      lastTx.feeAmount, lastTx.netAmount)
    /\ SettleReported =>
           ExactSplit(lastReport.totalCollected, config.defaultFeeBps,
                      lastReport.quote.isDonation,
                      lastReport.result.fee, lastReport.result.amountSent)

\* a settlement that settleFunds had sent and reported has been mined: its
\* fee does not divide evenly and is rounded down, on-chain and in the report
C8_Witness ==
    /\ SettledOnChain
    /\ IsSome(lastTx.reported)
    /\ ~lastTx.isDonation
    /\ lastTx.feeAmount * 10000 < lastTx.amount * vault.feeBps
    /\ Get(lastTx.reported).fee * 10000 < lastTx.amount * config.defaultFeeBps

\* C9: whatever the vault's state, also after setFee, the fee and amountSent
\* that settleFunds reports are the feeAmount and userAmount that the vault
\* applied to the settlement it was sent.
C9_ReportMatchesVault ==
    (SettledOnChain /\ IsSome(lastTx.reported)) =>
        /\ Get(lastTx.reported).fee = lastTx.feeAmount
        /\ Get(lastTx.reported).amountSent = lastTx.userAmount

\* C10: getVaultFeeCalculation returns as fee the fee amount and as
\* userAmount the net amount of the vault's computation: for 100 at 1000 bps
\* fee 10 and userAmount 90, for a donation fee 0 and userAmount 100.
C10_FeeCalculationFields ==
    FeeReported =>
        LET fee == IF lastReport.isDonation THEN 0
                   ELSE (lastReport.amount * vault.feeBps) \div 10000
        IN  /\ Get(lastReport.result).fee = fee
            /\ Get(lastReport.result).userAmount = lastReport.amount - fee



-----------------------------------------------------------------------------
(* Properties of quote generation (specification SpecQuote) *)

Generated == lastOp.op = "generateQuote"

\* C11: generateQuote for a destination chain id that is not in the chain
\* registry fails with the unsupported-chain error, without having started
\* the balance scan, and leaves the quote store as it was.
C11_UnsupportedDestination ==
    [][(lastOp'.op = "generateQuote"
          /\ lastOp'.request.destinationChainId \notin DOMAIN chains)
       => /\ lastOp'.status = "Unsupported destination chain"
          /\ lastOp'.scan = None
          /\ quoteStore' = quoteStore]_vars

\* a request for an unregistered destination has just been refused while
\* the store holds a quote
C11_Witness ==
    /\ Generated
    /\ lastOp.request.destinationChainId \notin DOMAIN chains
    /\ lastOp.status = "Unsupported destination chain"
    /\ DOMAIN quoteStore # {}

\* C12: when the scan returns zero dust tokens generateQuote fails with the
\* no-dust error and stores nothing; every stored quote has at least one
\* dust token.
C12_NoDustNoQuote ==
    [][/\ (lastOp'.op = "generateQuote" /\ lastOp'.scan = Some(0))
          => /\ lastOp'.status = "No dust tokens found to sweep"
             /\ quoteStore' = quoteStore
       /\ \A id \in DOMAIN quoteStore' :
             Len(quoteStore'[id].quote.dustTokens) >= 1]_vars

\* a scan that found nothing has just been refused while the store holds a quote
C12_Witness ==
    /\ Generated
    /\ lastOp.scan = Some(0)
    /\ lastOp.status = "No dust tokens found to sweep"
    /\ DOMAIN quoteStore # {}



DustChains(q) == {q.dustTokens[i].chainId : i \in 1..Len(q.dustTokens)}
DelegateChains == {c \in DOMAIN chains : IsSome(chains[c].delegateAddress)}
AuthChains(q) ==
    {q.authorizationData.authorizations[i].chainId :
        i \in 1..Len(q.authorizationData.authorizations)}

\* C13: the authorizations of every quote are exactly one per distinct chain
\* that has dust in the quote and a configured delegate address, and none
\* for any other chain; the dust of a chain without a delegate still counts
\* in totalInputValueUsd.
C13_AuthorizationsPerDelegateChain ==
    \A id \in DOMAIN quoteStore :
        LET q == quoteStore[id].quote
        IN  /\ AuthChains(q) = DustChains(q) \cap DelegateChains
            /\ Len(q.authorizationData.authorizations)
                  = Cardinality(DustChains(q) \cap DelegateChains)
            /\ q.totalInputValueUsd = SumValue(q.dustTokens)

\* a stored quote has two dust tokens on a chain with a delegate and dust
\* on a chain without one
C13_Witness ==
    \E id \in DOMAIN quoteStore :
        LET q == quoteStore[id].quote
        IN  /\ \E i, j \in 1..Len(q.dustTokens) :
                  /\ i # j
                  /\ q.dustTokens[i].chainId = q.dustTokens[j].chainId
                  /\ q.dustTokens[i].chainId \in DelegateChains
            /\ \E i \in 1..Len(q.dustTokens) :
                  /\ q.dustTokens[i].chainId \notin DelegateChains
                  /\ q.dustTokens[i].valueUsd > 0



-----------------------------------------------------------------------------
(* Properties of the sweep executor (specification SpecSweep) *)

Started(e) == sweeps[e].pc \in {"awaiting", "done"}
Done(e) == sweeps[e].pc = "done"
AllFailed(results) == \A i \in 1..Len(results) : ~results[i].success
AllSucceeded(results) == \A i \in 1..Len(results) : results[i].success
ResultChains(results) == [i \in 1..Len(results) |-> results[i].chainId]
DeadlinePassed(quote) == now \div 1000 > quote.authorizationData.deadline

\* C14: for a quote with at least one dust token, executeSweeps returns
\* `failed` exactly when every chain failed, `swapping` exactly when every
\* chain succeeded, and `sweeping` exactly when some chain succeeded and
\* some chain failed.
C14_StatusAggregation ==
    \A e \in Invocations :
        (Done(e) /\ Len(sweeps[e].quote.dustTokens) >= 1) =>
            LET x == sweeps[e]
            IN  /\ x.status = "failed" <=> AllFailed(x.results)
                /\ x.status = "swapping" <=> AllSucceeded(x.results)
                /\ x.status = "sweeping" <=>
                      (~AllFailed(x.results) /\ ~AllSucceeded(x.results))

\* an invocation has returned with one chain swept and another failed
C14_Witness ==
    \E e \in Invocations :
        /\ Done(e)
        /\ sweeps[e].status = "sweeping"
        /\ \E i, j \in 1..Len(sweeps[e].results) :
              sweeps[e].results[i].success /\ ~sweeps[e].results[j].success

\* C15: an execution goes on to sweep only when the signature set is
\* non-empty and the authorization deadline has not passed; otherwise its
\* status is `expired` at once and it submits no sweep transaction.
C15_ExpiredWithoutSweep ==
    \A e \in Invocations :
        (Started(e) /\ (DOMAIN sweeps[e].signatures = {}
                        \/ DeadlinePassed(sweeps[e].quote))) =>
            /\ Done(e)
            /\ sweeps[e].status = "expired"
            /\ sweeps[e].txs = <<>>

\* C16: executeSweeps handles every distinct chain of the quote's dust
\* exactly once, whatever happened on the chains before it: while it runs
\* the chains with a result and the chains still to do make up the distinct
\* chains in order, when it returns there is exactly one result per
\* distinct chain, and no call is ever sent twice for a chain.
C16_EveryChainOnce ==
    \A e \in Invocations :
        Started(e) =>
            LET x == sweeps[e]
            IN  /\ ResultChains(x.results) \o x.chainsLeft
                      = ChainsInOrder(x.quote.dustTokens)
                /\ Done(e) => x.chainsLeft = <<>>
                /\ \A i, j \in 1..Len(x.txs) : x.txs[i] = x.txs[j] => i = j

\* an invocation has returned, its first chain failed and a later chain
\* was swept all the same
C16_Witness ==
    \E e \in Invocations :
        /\ Done(e)
        /\ Len(sweeps[e].results) >= 2
        /\ ~sweeps[e].results[1].success
        /\ \E i \in 2..Len(sweeps[e].results) : sweeps[e].results[i].success

\* C17: within one invocation at most one transaction submission is in
\* flight, and the native sweep of a chain is in flight only after the
\* chain's ERC-20 sweep submission, if it has one, has returned.
C17_SequentialPerChain ==
    \A e \in Invocations :
        sweeps[e].pc = "awaiting" =>
            LET x == sweeps[e]
                chainId == Head(x.chainsLeft)
            IN  /\ Cardinality(x.inflight) <= 1
                /\ ("sweepNative" \in x.inflight
                       /\ "sweep" \in SeqToSet(SweepSubmissions(TokensOn(x.quote, chainId))))
                     => \E i \in 1..Len(x.txs) :
                           x.txs[i] = [chainId |-> chainId, fn |-> "sweep"]

\* the native sweep of a chain is in flight after its ERC-20 sweep was submitted
C17_Witness ==
    \E e \in Invocations :
        /\ sweeps[e].pc = "awaiting"
        /\ sweeps[e].inflight = {"sweepNative"}
        /\ \E i \in 1..Len(sweeps[e].txs) :
              sweeps[e].txs[i] = [chainId |-> Head(sweeps[e].chainsLeft), fn |-> "sweep"]



-----------------------------------------------------------------------------
(* Properties of the swap and bridge quotes (specification SpecRoute) *)

RouteDone == routeReturn.status = "resolved"
IsSwap == routeCall.fn = "getSwapQuote"
PrimaryName == IF IsSwap THEN "llamaswap" ELSE "lifi"
FallbackName == IF IsSwap THEN "1inch" ELSE "socket"
Reachable == IsSwap => routeCall.chainId \in AggregatorChains
PrimaryQuoted == Reachable /\ routeCall.world.primary.kind = "quote"
FallbackQuoted ==
    IF IsSwap THEN Reachable /\ routeCall.world.fallback.kind = "quote"
    ELSE /\ routeCall.world.fallback.kind = "routes"
         /\ routeCall.world.fallback.routes # <<>>
         /\ routeCall.world.fallback.build = "ok"

\* C18: getSwapQuote and getBridgeQuote ask each provider at most once and
\* the primary before the fallback; the fallback is asked only when the
\* primary threw or had no quote; a quote of the primary is the result;
\* when neither provider has a quote the result is none, not an error.
C18_FallbackAfterPrimary ==
    RouteDone =>
        /\ routeReturn.queried \in {<<>>, <<PrimaryName>>, <<FallbackName>>,
                                     <<PrimaryName, FallbackName>>}
        /\ FallbackName \in SeqToSet(routeReturn.queried) => ~PrimaryQuoted
        /\ PrimaryQuoted =>
              /\ routeReturn.queried = <<PrimaryName>>
              /\ IsSome(routeReturn.value)
              /\ Get(routeReturn.value).amountOut = routeCall.world.primary.amountOut
        /\ (~PrimaryQuoted /\ ~FallbackQuoted) => routeReturn.value = None

\* the primary threw, the fallback was asked after it and its quote is the result
C18_Witness ==
    /\ RouteDone
    /\ routeCall.world.primary.kind = "throw"
    /\ routeReturn.queried = <<PrimaryName, FallbackName>>
    /\ IsSome(routeReturn.value)

\* C19: the route that the bridge quote step takes from the aggregator's
\* candidates has the greatest amountOut of all candidates returned,
\* whatever their order.
C19_BestRouteChosen ==
    (RouteDone /\ ~IsSwap /\ IsSome(routeReturn.value)
       /\ Get(routeReturn.value).bridgeName = "Socket") =>
        \A i \in 1..Len(routeCall.world.fallback.routes) :
            Get(routeReturn.value).amountOut
                >= routeCall.world.fallback.routes[i].toAmount

\* C20: a successful settle / settleNative pays the recipient amount - fee
\* with fee = floor(amount * feeBps / 10000) and adds exactly fee to
\* accumulatedFees[token]; for a donation the fee is 0, the recipient is the
\* treasury whatever `user` was passed, accumulatedFees is unchanged and
\* totalDonations[token] grows by the full amount.
C20_SettlementAccounting ==
    [][(lastTx'.op \in {"settle", "settleNative"} /\ lastTx'.status = "ok") =>
        LET token == lastTx'.token
            amount == lastTx'.amount
            donation == lastTx'.isDonation
            fee == IF donation THEN 0 ELSE (amount * vault.feeBps) \div 10000
            recipient == IF donation THEN vault.defiLlamaTreasury ELSE lastTx'.user
        IN  /\ ledger'[token][recipient] = ledger[token][recipient] + (amount - fee)
            /\ ledger'[token][VaultAddress] = ledger[token][VaultAddress] - (amount - fee)
            /\ \A a \in Accounts \ {recipient, VaultAddress} :
                   ledger'[token][a] = ledger[token][a]
            /\ \A t \in VaultTokens \ {token} : ledger'[t] = ledger[t]
            /\ vault'.accumulatedFees =
                   [vault.accumulatedFees EXCEPT ![token] = @ + fee]
            /\ donation => vault'.accumulatedFees = vault.accumulatedFees
            /\ vault'.totalDonations =
                   [vault.totalDonations EXCEPT
                       ![token] = IF donation THEN @ + amount ELSE @]]_vars

\* a donation of 105 USDC settled with Alice passed as `user`: the treasury
\* holds all of it and no USDC fee accrued, after a native settlement of 105
\* at 10% whose fee was rounded down to 10
C20_Witness ==
    /\ lastTx.op = "settle" /\ lastTx.status = "ok"
    /\ lastTx.isDonation /\ lastTx.user = "0xAlice"
    /\ ledger[USDC]["0xTreasury"] = 105
    /\ ledger[USDC]["0xAlice"] = 0
    /\ vault.totalDonations[USDC] = 105
    /\ vault.accumulatedFees[USDC] = 0
    /\ vault.accumulatedFees[ZERO_ADDRESS] = 10
    /\ ledger[ZERO_ADDRESS]["0xAlice"] = 95

-----------------------------------------------------------------------------
(* LlamaSweepDelegate *)

\* C21: each of sweep, sweepNative, sweepAll and sweepAllNative reverts with
\* Unauthorized and moves no funds when the caller is not the solver address
\* fixed at construction, which no call changes.
C21_OnlySolverSweeps ==
    [][/\ delegate' = delegate
       /\ (lastSweep'.op \in {"sweep", "sweepNative", "sweepAll", "sweepAllNative"}
             /\ lastSweep'.sender # delegate.solver) =>
              /\ lastSweep'.status = "Unauthorized"
              /\ wallet' = wallet]_vars

\* a stranger called sweepAll for a token the account holds, before the deadline
C21_Witness ==
    /\ lastSweep.op = "sweepAll" /\ lastSweep.sender = "0xStranger"
    /\ lastSweep.args.token = USDC
    /\ lastSweep.timestamp <= lastSweep.deadline
    /\ lastSweep.status = "Unauthorized"
    /\ wallet[USDC]["0xAlice"] > 0

\* C22 as stated: each sweep function reverts with DeadlineExpired and moves
\* no funds whenever block.timestamp is greater than the deadline passed.
C22_ExpiredDeadlineReverts ==
    [][(lastSweep'.op \in {"sweep", "sweepNative", "sweepAll", "sweepAllNative"}
          /\ lastSweep'.timestamp > lastSweep'.deadline) =>
           /\ lastSweep'.status = "DeadlineExpired"
           /\ wallet' = wallet]_vars

\* C22 amended: a call made by the solver with block.timestamp greater than
\* the deadline reverts with DeadlineExpired; a call made by anyone else
\* with such a deadline reverts with Unauthorized; neither moves funds.
C22_ExpiredDeadlineRevertsForSolver ==
    [][(lastSweep'.op \in {"sweep", "sweepNative", "sweepAll", "sweepAllNative"}
          /\ lastSweep'.timestamp > lastSweep'.deadline) =>
           /\ lastSweep'.status = IF lastSweep'.sender = delegate.solver
                                   THEN "DeadlineExpired" ELSE "Unauthorized"
           /\ wallet' = wallet]_vars

\* the solver called sweepAllNative one second after the deadline while the
\* account held native currency
C22_Witness ==
    /\ lastSweep.op = "sweepAllNative" /\ lastSweep.sender = "0xSolver"
    /\ lastSweep.timestamp = lastSweep.deadline + 1
    /\ lastSweep.status = "DeadlineExpired"
    /\ wallet[ZERO_ADDRESS]["0xAlice"] > 0

\* an entry of the batch that sweep refuses, or whose transfer fails
InvalidEntry(b, w, i) ==
    \/ b.tokens[i] = ZERO_ADDRESS
    \/ b.amounts[i] = 0
    \/ w[b.tokens[i]]["0xAlice"] < b.amounts[i]

\* C23: a sweep batch is all-or-nothing: if the token and amount arrays
\* differ in length, or some entry has a zero token address or a zero amount
\* or its transfer fails, the call reverts and no token has moved.
C23_BatchAllOrNothing ==
    [][(lastSweep'.op = "sweep"
          /\ LET b == lastSweep'.args
             IN  \/ Len(b.tokens) # Len(b.amounts)
                 \/ \E i \in 1..Len(b.tokens) : InvalidEntry(b, wallet, i)) =>
           /\ lastSweep'.status # "ok"
           /\ wallet' = wallet]_vars

\* the solver's batch was refused at its second entry, in time, while the
\* first entry's token could have been transferred
C23_Witness ==
    /\ lastSweep.op = "sweep" /\ lastSweep.sender = "0xSolver"
    /\ lastSweep.timestamp <= lastSweep.deadline
    /\ lastSweep.args.tokens = <<USDC, DAI>> /\ lastSweep.args.amounts = <<1, 2>>
    /\ lastSweep.status = "TransferFailed"
    /\ wallet[USDC]["0xAlice"] >= 1
    /\ wallet[USDC]["0xSolver"] = 0

-----------------------------------------------------------------------------
(* SolverVault: fee cap, access control, fee reserve *)

\* C24 as stated: in every reachable state feeBps <= MAX_FEE_BPS, and setFee
\* with a larger value reverts with FeeTooHigh and leaves feeBps unchanged.
C24_FeeCapped ==
    /\ [](vault.feeBps <= MAX_FEE_BPS)
    /\ [][(lastTx'.op = "setFee" /\ lastTx'.newFeeBps > MAX_FEE_BPS) =>
             /\ lastTx'.status = "FeeTooHigh"
             /\ vault'.feeBps = vault.feeBps]_vars

\* C24 amended: in every reachable state feeBps <= MAX_FEE_BPS; setFee with
\* a larger value leaves feeBps unchanged, reverting with FeeTooHigh when the
\* owner calls it and with Unauthorized when anyone else does.
C24_FeeCappedForOwner ==
    /\ [](vault.feeBps <= MAX_FEE_BPS)
    /\ [][(lastTx'.op = "setFee" /\ lastTx'.newFeeBps > MAX_FEE_BPS) =>
             /\ lastTx'.status = IF lastTx'.sender = vault.owner
                                  THEN "FeeTooHigh" ELSE "Unauthorized"
             /\ vault'.feeBps = vault.feeBps]_vars

\* the owner asked for 20.01% while the fee stood at the cap
C24_Witness ==
    /\ lastTx.op = "setFee" /\ lastTx.sender = vault.owner
    /\ lastTx.newFeeBps = MAX_FEE_BPS + 1
    /\ lastTx.status = "FeeTooHigh"
    /\ vault.feeBps = MAX_FEE_BPS

OwnerFunctions ==
    {"setFee", "setOperator", "setSwapRouter", "setBridgeRouter", "setDefiLlamaTreasury",
     "transferOwnership", "withdrawFees", "emergencyWithdraw"}
OperatorFunctions ==
    {"recordDustReceived", "swapDust", "bridgeToUser", "settle", "settleNative"}

\* C25: owner-only functions succeed only for the current owner, operator
\* functions only for the current owner or an address currently flagged as
\* operator; any other caller gets Unauthorized and no state changes.
C25_AccessControl ==
    [][/\ (lastTx'.op \in OwnerFunctions /\ lastTx'.sender # vault.owner) =>
              /\ lastTx'.status = "Unauthorized"
              /\ vault' = vault /\ ledger' = ledger
       /\ (lastTx'.op \in OperatorFunctions
             /\ lastTx'.sender # vault.owner
             /\ lastTx'.sender \notin vault.operators) =>
              /\ lastTx'.status = "Unauthorized"
              /\ vault' = vault /\ ledger' = ledger]_vars

\* the deployer, still flagged as operator after handing ownership to the
\* solver, was refused an emergency withdrawal of the USDC the vault holds
C25_Witness ==
    /\ lastTx.op = "emergencyWithdraw" /\ lastTx.sender = "0xOwner"
    /\ lastTx.args.token = USDC
    /\ lastTx.status = "Unauthorized"
    /\ vault.owner = "0xSolver"
    /\ "0xOwner" \in vault.operators
    /\ ledger[USDC][VaultAddress] > 0

\* C30: for every token and for the native currency, accumulatedFees[token]
\* does not exceed the vault's balance of that token.
C30_FeesCoveredByBalance ==
    \A t \in VaultTokens : vault.accumulatedFees[t] <= ledger[t][VaultAddress]

-----------------------------------------------------------------------------
(* Balance scanner: chain selection, unpriced tokens, settlement order *)

\* the registered chains restricted to includeChains, when given and
\* non-empty, minus excludeChains
SelectedChainSet ==
    LET include == scanCall.options.includeChains
        exclude == scanCall.options.excludeChains
    IN  (IF IsSome(include) /\ Get(include) # {}
         THEN SupportedChainSet \cap Get(include) ELSE SupportedChainSet)
        \ (IF IsSome(exclude) THEN Get(exclude) ELSE {})

\* C26: the chains scanned by scanAllBalances are the registered chains
\* restricted to includeChains (when given and non-empty) minus
\* excludeChains; no balance of a chain outside that set is in the
\* DustSummary, and a chain listed in both lists is not scanned.
C26_ScannedChains ==
    ScanDone =>
        /\ ActiveChainSet = SelectedChainSet
        /\ \A b \in ScanBalances : b.chainId \in SelectedChainSet
        /\ \A c \in SupportedChainSet :
              (/\ IsSome(scanCall.options.includeChains)
               /\ IsSome(scanCall.options.excludeChains)
               /\ c \in Get(scanCall.options.includeChains)
               /\ c \in Get(scanCall.options.excludeChains)) =>
                  /\ c \notin ActiveChainSet
                  /\ \A b \in ScanBalances : b.chainId # c

\* Base is listed in both includeChains and excludeChains and holds dust in
\* the requested range; the summary has Ethereum's dust only
C26_Witness ==
    /\ ScanDone
    /\ scanCall.options.includeChains = Some({1, 8453, 99999})
    /\ scanCall.options.excludeChains = Some({100, 8453})
    /\ ChainOutcome(8453).status = "fulfilled"
    /\ \E b \in SeqToSet(ChainOutcome(8453).value) :
          RequestedMin <= b.valueUsd /\ b.valueUsd <= RequestedMax
    /\ ScanBalances # {}
    /\ \A b \in ScanBalances : b.chainId = 1

\* C27: a token with a nonzero balance whose price the oracle omits is never
\* recorded by the balance scanner with priceUsd = 0 and valueUsd = 0.
C27_UnpricedNotZero ==
    ScanDone =>
        \A b \in ScanBalances : b.balance > 0 => ~(b.priceUsd = 0 /\ b.valueUsd = 0)

\* C28: the DustSummary is the same for every order in which the per-chain
\* scan tasks settle, and its balances are listed in descending order of
\* valueUsd.
C28_SettleOrderIrrelevant ==
    ScanDone =>
        /\ \A order \in SettleOrders(Len(ActiveChainIds(scanCall.options))) :
              scanReturn = scanAllBalancesSettling(scanCall.options, scanCall.rpc, order)
        /\ \A i, j \in 1..Len(scanReturn.value.balances) :
              i < j => scanReturn.value.balances[i].valueUsd
                          >= scanReturn.value.balances[j].valueUsd

\* three chains were scanned, Ethereum and Base both hold native dust of
\* the same value and Ethereum's is listed first, above a smaller balance
C28_Witness ==
    /\ ScanDone
    /\ Len(ActiveChainIds(scanCall.options)) = 3
    /\ Len(scanReturn.value.balances) >= 3
    /\ \E i \in 1..(Len(scanReturn.value.balances) - 1) :
          /\ scanReturn.value.balances[i].chainId = 1
          /\ scanReturn.value.balances[i + 1].chainId = 8453
          /\ scanReturn.value.balances[i].valueUsd
                = scanReturn.value.balances[i + 1].valueUsd
    /\ \E i, j \in 1..Len(scanReturn.value.balances) :
          scanReturn.value.balances[i].valueUsd > scanReturn.value.balances[j].valueUsd

-----------------------------------------------------------------------------
(* Sweep executor: signatures *)

\* C29: executeSweeps submits a sweep transaction on a chain only if the
\* signature map it was given has a signature for that chain.
C29_SignedChainsOnly ==
    \A e \in Invocations :
        Started(e) =>
            \A i \in 1..Len(sweeps[e].txs) :
                sweeps[e].txs[i].chainId \in DOMAIN sweeps[e].signatures

-----------------------------------------------------------------------------
(* Sweep executor: failed chains and overlapping invocations *)

\* C31: a chain that executeSweeps reports as failed had no sweep
\* transaction successfully submitted on it during the call; in particular
\* a chain whose ERC-20 sweep was submitted before its native sweep failed
\* is not reported as failed with the empty transaction reference.
C31_FailedMeansNothingSubmitted ==
    \A e \in Invocations :
        Started(e) =>
            \A i \in 1..Len(sweeps[e].results) :
                ~sweeps[e].results[i].success =>
                    \A j \in 1..Len(sweeps[e].txs) :
                        sweeps[e].txs[j].chainId # sweeps[e].results[i].chainId

\* C35: transaction submissions made from the solver account on one chain
\* are never in flight at the same time, also when executeSweeps
\* invocations overlap.
C35_OneSubmissionPerChainAccount ==
    \A e, f \in Invocations :
        (e # f /\ sweeps[e].pc = "awaiting" /\ sweeps[f].pc = "awaiting"
             /\ sweeps[e].inflight # {} /\ sweeps[f].inflight # {}) =>
            Head(sweeps[e].chainsLeft) # Head(sweeps[f].chainsLeft)

-----------------------------------------------------------------------------
(* SolverVault: the deployer after transferOwnership *)

\* C32: once the deployer has transferred ownership, its calls to the
\* owner-only and to the operator-only functions revert with Unauthorized
\* (no setOperator call ever names the deployer here, so the new owner has
\* not granted it operator rights since).
C32_PreviousOwnerRefused ==
    [][(vault.owner # "0xOwner"
          /\ lastTx'.op \in OwnerFunctions \cup OperatorFunctions
          /\ lastTx'.sender = "0xOwner") =>
             lastTx'.status = "Unauthorized"]_vars

-----------------------------------------------------------------------------
(* Quote store: a stored quote until its expiry *)

\* C33: a stored quote whose expiresAt is still ahead stays in the store
\* unchanged over every step (a lookup, a cleanup run, another
\* generateQuote, the clock), and a getQuote of its id returns it.
C33_StoredUntilExpiry ==
    [][\A id \in DOMAIN quoteStore :
          now' < quoteStore[id].quote.expiresAt =>
             /\ id \in DOMAIN quoteStore'
             /\ quoteStore'[id].quote = quoteStore[id].quote
             /\ (lastOp'.op = "getQuote" /\ lastOp'.quoteId = id) =>
                    lastOp'.result = Some(quoteStore[id].quote)]_vars

-----------------------------------------------------------------------------
(* Quote service: donations without a treasury *)

\* C34: while no treasury address is configured no stored quote has
\* isDonation; a generateQuote with donateToDefillama then yields a
\* non-donation quote with the default fee and the requesting user as
\* recipient, and POST /donate rejects the request without storing a quote.
C34_NoDonationWithoutTreasury ==
    /\ [](~IsSome(config.defiLlamaTreasury) =>
            /\ \A id \in DOMAIN quoteStore : ~quoteStore[id].quote.isDonation
            /\ (GeneratedOk /\ DonationAsked) =>
                  LET q == quoteStore[lastOp.quoteId].quote
                  IN  /\ q.feePercent * 100 = config.defaultFeeBps
                      /\ q.recipient = lastOp.request.userAddress
            /\ lastOp.op = "donate" =>
                  lastOp.status = "DefiLlama treasury address not configured")
    /\ [][(~IsSome(config.defiLlamaTreasury) /\ lastOp'.op = "donate")
             => quoteStore' = quoteStore]_vars

\* POST /donate from a well-formed address was rejected for want of a
\* treasury, while the store holds a quote that POST /quote issued
C34_Witness ==
    /\ ~IsSome(config.defiLlamaTreasury)
    /\ lastOp.op = "donate"
    /\ addressSchema(lastOp.body.userAddress)
    /\ lastOp.status = "DefiLlama treasury address not configured"
    /\ DOMAIN quoteStore # {}

-----------------------------------------------------------------------------
(* LlamaSweepDelegate: the deadlines it accepts *)

\* C36: every deadline with which a sweep function succeeds satisfies
\* isValidDeadline at that block: it lies strictly after block.timestamp
\* and at most MAX_DEADLINE_EXTENSION ahead of it.
C36_SucceedsOnlyWithValidDeadline ==
    (lastSweep.op \in {"sweep", "sweepNative", "sweepAll", "sweepAllNative"}
        /\ lastSweep.status = "ok") =>
        isValidDeadline(lastSweep.timestamp, lastSweep.deadline)


=============================================================================
